---- MODULE Spec2Model ----
(***************************************************************************)
(* A model of the GR Cup race analytics engine (src/Stragery_engine.py,    *)
(* class GRCupAnalytics) and of the code that calls it.                    *)
(*                                                                         *)
(* Numbers.  Python floats are modelled by exact fixed-point or rational   *)
(* arithmetic:                                                             *)
(*   - percentages and rates are integers in tenths of a percent           *)
(*     (2.5 %/lap is 25, 100 % is 1000);                                    *)
(*   - a "laps remaining" value is a rational <<num, den>> with den > 0;   *)
(*   - lap times are integers in tenths of a second, timestamps integers   *)
(*     in seconds.                                                         *)
(* Binary rounding noise of the floats is not modelled.                    *)
(*                                                                         *)
(* Tables.  A pandas DataFrame is a record                                 *)
(*   [tag |-> "DataFrame", cols |-> <<column names>>, rows |-> <<rows>>]   *)
(* whose rows are records over the columns; Python's None is NoneV.        *)
(*                                                                         *)
(* Car ids are identifiers (strings such as GR86-004-78 in the timing      *)
(* files); the model numbers them, and writes the integers of a numeric    *)
(* car-id column as Int64(n).  The results, weather and best-laps          *)
(* tables, which no query reads, and the wall-clock timestamp fields of    *)
(* the exported records are left out.                                      *)
(***************************************************************************)
EXTENDS Integers, Sequences, FiniteSets, TLC

VARIABLES
    fs,          \* the CSV tables found in data_dir:
                 \* [lap_time, lap_start, lap_end, telemetry]
    lap_times,   \* self.lap_times
    lap_starts,  \* self.lap_starts
    lap_ends,    \* self.lap_ends
    telemetry,   \* self.telemetry
    pc,          \* "new" after __init__, "loaded" / "failed" after load_data
    ret,         \* the last call and what it returned or raised
    live_data,   \* the content of the output file of export_live_data
    tree,        \* the directories of the tracks under base_path
    at,          \* where process_all_tracks is: [pc, track, race_num]
    batch        \* what process_all_tracks has built and printed

vars == <<fs, lap_times, lap_starts, lap_ends, telemetry, pc, ret, live_data,
          tree, at, batch>>

\* the tables of the engine
tables == <<lap_times, lap_starts, lap_ends, telemetry>>

\* what the batch driver reads and writes
driver == <<tree, at, batch>>

(***************************************************************************)
(* Bounds of the model                                                     *)
(***************************************************************************)
\* current_lap of a pit prediction ranges over 0..MaxLap
MaxLap == 45

\* car ids passed to the pure queries
QueryCars == {1}

\* fuel_per_lap and tire_deg_rate, in tenths of a percent per lap
\* (1.6, 2.0, 2.5 = default fuel, 3.2 = default tires, 125.0)
Rates == {16, 20, 25, 32, 1250}

\* the lap-start and lap-end files of a race hold at most MaxEvents rows together
MaxEvents == 3

\* the cars of a one-lap timing table are 1..n, n <= NumCars
NumCars == 6

\* the cars of a several-lap timing table are 1..k, k <= DeepCars
DeepCars == 4

\* a several-lap timing table records at most MaxLaps laps
MaxLaps == 4

(***************************************************************************)
(* Values                                                                  *)
(***************************************************************************)
NoneV == [tag |-> "None"]

\* a CSV file that exists and that pd.read_csv cannot parse (it raises)
Unreadable == [tag |-> "Unreadable"]

\* the float "not a number"
NaN == [kind |-> "nan"]

DataFrame(cols, rows) == [tag |-> "DataFrame", cols |-> cols, rows |-> rows]

IsDataFrame(t) == t.tag = "DataFrame"

\* col in df.columns
HasColumn(df, col) == \E i \in 1..Len(df.cols) : df.cols[i] = col

NoCall == [op |-> "none"]

\* the files of data_dir (None: the glob matches nothing)
Files(lap_time, lap_start, lap_end, telemetry_file) ==
    [lap_time |-> lap_time, lap_start |-> lap_start, lap_end |-> lap_end,
     telemetry |-> telemetry_file]

NoFiles == Files(NoneV, NoneV, NoneV, NoneV)

\* no batch is running
NoTree == <<>>

Idle == [pc |-> "idle"]

NoBatch == [tag |-> "None"]

\* a number of whole units in tenths
Tenths(x) == 10 * x

Max(a, b) == IF a >= b THEN a ELSE b

\* rationals <<num, den>>, den > 0
RatLess(a, b) == a[1] * b[2] < b[1] * a[2]

RatLessInt(a, k) == a[1] < k * a[2]

\* Python int(x) of the float x = n/d, d > 0: truncation toward zero
PyInt(n, d) == IF n >= 0 THEN n \div d ELSE -((-n) \div d)

\* Python round(x, 1) of x = n/d, d > 0, in tenths: nearest tenth, a tie to the
\* even tenth
PyRound1(n, d) ==
    LET q == (10 * n) \div d
        r == (10 * n) % d
    IN  IF 2 * r < d THEN q
        ELSE IF 2 * r > d THEN q + 1
        ELSE IF q % 2 = 0 THEN q ELSE q + 1

(***************************************************************************)
(* predict_pit_window                                                      *)
(***************************************************************************)
initial_fuel == 100

initial_tire == 100

\* the default rates of the signature, in tenths of a percent per lap
default_fuel_per_lap == 25

default_tire_deg_rate == 32

\* the remaining resource clamped at zero
RemainingClampedMutant(initial, current_lap, rate) ==
    Max(0, Tenths(initial) - current_lap * rate)

\* initial - current_lap * rate, in tenths of a percent (not clamped at zero)
Remaining(initial, current_lap, rate) == Tenths(initial) - current_lap * rate

\* remaining / rate, as a rational
LapsOn(remaining, rate) == <<remaining, rate>>

\* the comparison taken as <=, so that a tie is fuel
CriticalFactorTieFuelMutant(laps_on_fuel, laps_on_tires) ==
    IF ~RatLess(laps_on_tires, laps_on_fuel) THEN "fuel" ELSE "tires"

CriticalFactor(laps_on_fuel, laps_on_tires) ==
    IF RatLess(laps_on_fuel, laps_on_tires) THEN "fuel" ELSE "tires"

\* current_lap + int(laps_remaining - 2.5), without the max(1, ...)
OptimalPitLapNoMaxMutant(current_lap, laps_remaining) ==
    current_lap
      + PyInt(2 * laps_remaining[1] - 5 * laps_remaining[2], 2 * laps_remaining[2])

\* current_lap + max(1, int(laps_remaining - 2.5))
OptimalPitLap(current_lap, laps_remaining) ==
    current_lap
      + Max(1, PyInt(2 * laps_remaining[1] - 5 * laps_remaining[2],
                     2 * laps_remaining[2]))

\* the thresholds taken inclusively (<= 3, <= 6)
UrgencyInclusiveMutant(laps_remaining) ==
    IF laps_remaining[1] <= 3 * laps_remaining[2] THEN "critical"
    ELSE IF laps_remaining[1] <= 6 * laps_remaining[2] THEN "high"
    ELSE "medium"

Urgency(laps_remaining) ==
    IF RatLessInt(laps_remaining, 3) THEN "critical"
    ELSE IF RatLessInt(laps_remaining, 6) THEN "high"
    ELSE "medium"

\* a window that opens three laps before the optimal lap
PitWindowWideMutant(optimal_pit_lap) == <<optimal_pit_lap - 3, optimal_pit_lap + 2>>

PitWindow(optimal_pit_lap) == <<optimal_pit_lap - 2, optimal_pit_lap + 2>>

\* the recommendation; laps_remaining is the local of that name, which the
\* dict holds only rounded (laps_until_critical)
predict_pit_window(car_id, current_lap, fuel_per_lap, tire_deg_rate) ==
    LET fuel_remaining == Remaining(initial_fuel, current_lap, fuel_per_lap)
        tire_condition == Remaining(initial_tire, current_lap, tire_deg_rate)
        laps_on_fuel   == LapsOn(fuel_remaining, fuel_per_lap)
        laps_on_tires  == LapsOn(tire_condition, tire_deg_rate)
        critical_factor == CriticalFactor(laps_on_fuel, laps_on_tires)
        laps_remaining == IF critical_factor = "fuel" THEN laps_on_fuel
                          ELSE laps_on_tires
        optimal_pit_lap == OptimalPitLap(current_lap, laps_remaining)
    IN  [car_id              |-> car_id,
         current_lap         |-> current_lap,
         fuel_remaining_pct  |-> fuel_remaining,
         tire_condition_pct  |-> tire_condition,
         critical_factor     |-> critical_factor,
         laps_until_critical |-> PyRound1(laps_remaining[1], laps_remaining[2]),
         optimal_pit_lap     |-> optimal_pit_lap,
         pit_window          |-> PitWindow(optimal_pit_lap),
         urgency             |-> Urgency(laps_remaining),
         laps_remaining      |-> laps_remaining]

(***************************************************************************)
(* Operations                                                              *)
(***************************************************************************)
\* GRCupAnalytics.__init__: every table is None
Constructed ==
    /\ lap_times = NoneV
    /\ lap_starts = NoneV
    /\ lap_ends = NoneV
    /\ telemetry = NoneV
    /\ pc = "new"
    /\ ret = NoCall

\* no output file has been written and no batch is running
Quiet == live_data = NoneV /\ tree = NoTree /\ at = Idle /\ batch = NoBatch

\* a call of predict_pit_window; it reads and writes no field of the engine
PredictPitWindow(car_id, current_lap, fuel_per_lap, tire_deg_rate) ==
    /\ ret' = [op   |-> "predict_pit_window",
               args |-> [car_id |-> car_id, current_lap |-> current_lap,
                         fuel_per_lap |-> fuel_per_lap,
                         tire_deg_rate |-> tire_deg_rate],
               val  |-> predict_pit_window(car_id, current_lap, fuel_per_lap,
                                           tire_deg_rate)]
    /\ UNCHANGED <<fs, tables, pc, live_data, driver>>

(***************************************************************************)
(* SpecPit: pit predictions on a freshly constructed engine                *)
(***************************************************************************)
InitPit == fs = NoFiles /\ Constructed /\ Quiet

NextPit ==
    \E car_id \in QueryCars, current_lap \in 0..MaxLap,
       fuel_per_lap \in Rates, tire_deg_rate \in Rates :
        PredictPitWindow(car_id, current_lap, fuel_per_lap, tire_deg_rate)

SpecPit == InitPit /\ [][NextPit]_vars

IsPit == ret.op = "predict_pit_window"

\* the exact laps left on a resource of the given rate: 100/rate - current_lap
ExactLaps(rate, current_lap) ==
    <<Tenths(100) - current_lap * rate, rate>>

RatEq(a, b) == a[1] * b[2] = b[1] * a[2]

\* floor of n/d, d > 0
Floor(n, d) == n \div d

(***************************************************************************)
(* _calculate_lap_times and load_data                                      *)
(***************************************************************************)
\* the filter on a lap time in tenths of a second, with both ends included
LapTimeValidInclusiveMutant(lap_time) ==
    lap_time >= Tenths(30) /\ lap_time <= Tenths(300)

\* (result['lap_time'] > 30) & (result['lap_time'] < 300)
LapTimeValid(lap_time) == lap_time > Tenths(30) /\ lap_time < Tenths(300)

\* one row of ends.merge(starts, on=['vehicle_id', 'lap']) with its lap_time,
\* reduced to the columns vehicle_id, lap, lap_time, timestamp (of the end)
MergedRow(e, s) ==
    [vehicle_id |-> e.vehicle_id,
     lap        |-> e.lap,
     lap_time   |-> Tenths(e.timestamp - s.timestamp),
     timestamp  |-> e.timestamp]

\* the merge keys: on=['vehicle_id', 'lap']
SameKey(e, s) == e.vehicle_id = s.vehicle_id /\ e.lap = s.lap

\* the inner merge: for each row of ends in order, one row per row of starts
\* with the same key, in the order of starts
RECURSIVE InnerMerge(_, _)
InnerMerge(ends, starts) ==
    IF ends = <<>> THEN <<>>
    ELSE LET e == Head(ends)
             matches == SelectSeq(starts, LAMBDA s : SameKey(e, s))
         IN  [i \in 1..Len(matches) |-> MergedRow(e, matches[i])]
               \o InnerMerge(Tail(ends), starts)

DerivedColumns == <<"vehicle_id", "lap", "lap_time", "timestamp">>

\* whether the body of _calculate_lap_times raises (a KeyError on a column it
\* indexes or merges on)
CalculateRaises(starts, ends) ==
    \E col \in {"timestamp", "vehicle_id", "lap"} :
        ~HasColumn(starts, col) \/ ~HasColumn(ends, col)

\* _calculate_lap_times: None when the body raises
calculate_lap_times(starts, ends) ==
    IF CalculateRaises(starts, ends) THEN NoneV
    ELSE DataFrame(DerivedColumns,
                   SelectSeq(InnerMerge(ends.rows, starts.rows),
                             LAMBDA r : LapTimeValid(r.lap_time)))

\* one "if file: self.x = pd.read_csv(file[0])" of load_data on the engine
\* fields self; a file that cannot be parsed raises
ReadInto(self, field, file) ==
    IF self.raised \/ file = NoneV THEN self
    ELSE IF file = Unreadable THEN [self EXCEPT !.raised = TRUE]
    ELSE [self EXCEPT ![field] = file]

\* a derivation whose failure leaves self.lap_times as it was
DeriveKeepOnFailureMutant(self) ==
    IF self.raised \/ self.lap_starts = NoneV \/ self.lap_ends = NoneV THEN self
    ELSE IF calculate_lap_times(self.lap_starts, self.lap_ends) = NoneV THEN self
    ELSE [self EXCEPT !.lap_times =
              calculate_lap_times(self.lap_starts, self.lap_ends)]

\* "if self.lap_starts is not None and self.lap_ends is not None:
\*      self.lap_times = self._calculate_lap_times()"
Derive(self) ==
    IF self.raised \/ self.lap_starts = NoneV \/ self.lap_ends = NoneV THEN self
    ELSE [self EXCEPT !.lap_times =
              calculate_lap_times(self.lap_starts, self.lap_ends)]

\* the columns named by the telemetry_name values of a long-format table, in
\* the sorted order in which pivot_table lays them out
TelemetryNames == <<"Distance", "Gear", "Speed", "ath", "pbrake_f">>

\* the index of the pivot
PivotIndex == <<"vehicle_id", "lap", "timestamp">>

SameSample(r, k) ==
    r.vehicle_id = k.vehicle_id /\ r.lap = k.lap /\ r.timestamp = k.timestamp

\* the order of the pivoted rows: by vehicle_id, then lap, then timestamp
SampleBefore(a, b) ==
    \/ a.vehicle_id < b.vehicle_id
    \/ a.vehicle_id = b.vehicle_id /\ a.lap < b.lap
    \/ a.vehicle_id = b.vehicle_id /\ a.lap = b.lap /\ a.timestamp < b.timestamp

\* the distinct index values of a set, sorted
RECURSIVE SortedSamples(_)
SortedSamples(keys) ==
    IF keys = {} THEN <<>>
    ELSE LET k == CHOOSE k \in keys : \A o \in keys : o = k \/ SampleBefore(k, o)
         IN  <<k>> \o SortedSamples(keys \ {k})

\* aggfunc='first': the first value of a metric in a sample, NaN without one
FirstValue(rows, k, name) ==
    LET hits == SelectSeq(rows, LAMBDA r : SameSample(r, k)
                                             /\ r.telemetry_name = name)
    IN  IF hits = <<>> THEN NaN ELSE hits[1].telemetry_value

\* _pivot_telemetry: the wide table, one row per (vehicle_id, lap, timestamp)
\* and one column per metric present; the raw table when the pivot raises
pivot_telemetry(raw) ==
    IF \E col \in {"vehicle_id", "lap", "timestamp", "telemetry_name",
                    "telemetry_value"} : ~HasColumn(raw, col)
    THEN raw
    ELSE LET names == SelectSeq(TelemetryNames,
                          LAMBDA n : \E i \in 1..Len(raw.rows) :
                                        raw.rows[i].telemetry_name = n)
             keys == SortedSamples(
                         {[vehicle_id |-> raw.rows[i].vehicle_id,
                           lap |-> raw.rows[i].lap,
                           timestamp |-> raw.rows[i].timestamp] :
                             i \in 1..Len(raw.rows)})
             cols == PivotIndex \o names
         IN  DataFrame(cols,
                 [j \in 1..Len(keys) |->
                     [c \in {cols[i] : i \in 1..Len(cols)} |->
                         IF c \in {"vehicle_id", "lap", "timestamp"}
                         THEN keys[j][c]
                         ELSE FirstValue(raw.rows, keys[j], c)]])

\* "if telemetry_file: self.telemetry = self._pivot_telemetry(read_csv(...))"
ReadTelemetry(self, file) ==
    IF self.raised \/ file = NoneV THEN self
    ELSE IF file = Unreadable THEN [self EXCEPT !.raised = TRUE]
    ELSE [self EXCEPT !.telemetry = pivot_telemetry(file)]

\* a load that derives only when no direct lap-time table was loaded
load_data_PreferDirectMutant(self, files) ==
    LET s3 == ReadInto(ReadInto(ReadInto(self, "lap_times", files.lap_time),
                                "lap_starts", files.lap_start),
                       "lap_ends", files.lap_end)
    IN  ReadTelemetry(IF s3.lap_times = NoneV THEN Derive(s3) ELSE s3,
                      files.telemetry)

\* load_data on the engine fields self with the files of data_dir: the fields
\* after the call, and raised when an exception reached its except clause
load_data(self, files) ==
    ReadTelemetry(
        Derive(ReadInto(ReadInto(ReadInto(self, "lap_times", files.lap_time),
                                 "lap_starts", files.lap_start),
                        "lap_ends", files.lap_end)),
        files.telemetry)

Self == [lap_times |-> lap_times, lap_starts |-> lap_starts,
         lap_ends |-> lap_ends, telemetry |-> telemetry, raised |-> FALSE]

\* a call of load_data: True, or False when an exception was caught
LoadData ==
    LET after == load_data(Self, fs)
    IN  /\ lap_times' = after.lap_times
        /\ lap_starts' = after.lap_starts
        /\ lap_ends' = after.lap_ends
        /\ telemetry' = after.telemetry
        /\ pc' = IF after.raised THEN "failed" ELSE "loaded"
        /\ ret' = [op |-> "load_data", val |-> ~after.raised]
        /\ UNCHANGED <<fs, live_data, driver>>

(***************************************************************************)
(* The column lookups and analyze_lap_times                                *)
(***************************************************************************)
\* "no column": the None a lookup returns
NoColumn == "<None>"

\* Car ids are strings where the file holds strings, written as the numbers
\* below Int64Base, the empty string '' as EmptyStr; the integer n that pandas
\* reads from a numeric column (a numpy.int64), or that a caller passes, is
\* written Int64(n).
Int64Base == 1000

Int64(n) == Int64Base + n

IsInt64(v) == v >= Int64Base

EmptyStr == 0

\* the car_id=None of a call without a car
NoCar == -1

\* a filter on every car id that is given
TruthyNotNoneMutant(car_id) == car_id # NoCar

\* "if car_id": None, the empty string and the integer 0 are falsy
Truthy(car_id) == car_id # NoCar /\ car_id # EmptyStr /\ car_id # Int64(0)

\* a lookup in which the order of the table's columns decides: the first
\* column of df that is a candidate
FirstPresentTableOrderMutant(candidates, df) ==
    LET hits == SelectSeq(df.cols,
                          LAMBDA c : \E k \in 1..Len(candidates) :
                                        candidates[k] = c)
    IN  IF hits = <<>> THEN NoColumn ELSE hits[1]

\* the first name of the candidate list that is a column of df, else NoColumn
RECURSIVE FirstPresent(_, _)
FirstPresent(candidates, df) ==
    IF candidates = <<>> THEN NoColumn
    ELSE IF HasColumn(df, Head(candidates)) THEN Head(candidates)
    ELSE FirstPresent(Tail(candidates), df)

\* _get_car_id_column: the first column when no candidate is present
get_car_id_column(df) ==
    IF df = NoneV THEN NoColumn
    ELSE LET c == FirstPresent(<<"CarId", "vehicle_id", "Car", "Vehicle",
                                 "vehicle_number">>, df)
         IN  IF c # NoColumn THEN c ELSE df.cols[1]

\* _get_lap_time_column
get_lap_time_column(df) ==
    IF df = NoneV THEN NoColumn
    ELSE FirstPresent(<<"lap_time", "LapTime", "laptime", "time", "Lap Time",
                        "elapsed">>, df)

\* _get_lap_column
get_lap_column(df) ==
    IF df = NoneV THEN NoColumn
    ELSE FirstPresent(<<"Lap", "lap", "LapNumber", "lap_number">>, df)

\* self.lap_times is None or self.lap_times.empty
Unavailable(df) == df = NoneV \/ df.rows = <<>> \/ df.cols = <<>>

\* the values of a column
Column(rows, col) == [i \in 1..Len(rows) |-> rows[i][col]]

RECURSIVE Sum(_)
Sum(xs) == IF xs = <<>> THEN 0 ELSE Head(xs) + Sum(Tail(xs))

SeqMin(xs) == CHOOSE x \in {xs[i] : i \in 1..Len(xs)} :
                  \A i \in 1..Len(xs) : x <= xs[i]

SeqMax(xs) == CHOOSE x \in {xs[i] : i \in 1..Len(xs)} :
                  \A i \in 1..Len(xs) : x >= xs[i]

\* Series.std() (ddof = 1): NaN for a single value, else the square root of the
\* sample variance (n * sum(x^2) - sum(x)^2) / (n * (n - 1)), kept as a rational
Std(xs) ==
    LET n == Len(xs)
    IN  IF n < 2 THEN NaN
        ELSE [kind |-> "sqrt",
              of   |-> <<n * Sum([i \in 1..n |-> xs[i] * xs[i]]) - Sum(xs) * Sum(xs),
                         n * (n - 1)>>]

\* 100 - (std / mean * 100): NaN when std is NaN, else 100 - 100 * sqrt(q),
\* q = variance / mean^2 kept as a rational
ConsistencyScore(xs) ==
    IF Std(xs) = NaN THEN NaN
    ELSE [kind |-> "100-100*sqrt",
          of   |-> <<Std(xs).of[1] * Len(xs) * Len(xs),
                     Std(xs).of[2] * Sum(xs) * Sum(xs)>>]

\* an analysis that never filters by car
analyze_lap_times_UnfilteredMutant(df, car_id) ==
    IF Unavailable(df) THEN NoneV
    ELSE IF get_lap_time_column(df) = NoColumn THEN NoneV
    ELSE LET xs == Column(df.rows, get_lap_time_column(df))
         IN  [car_id            |-> car_id,
              total_laps        |-> Len(df.rows),
              best_lap          |-> SeqMin(xs),
              worst_lap         |-> SeqMax(xs),
              avg_lap           |-> <<Sum(xs), Len(xs)>>,
              std_dev           |-> Std(xs),
              consistency_score |-> ConsistencyScore(xs)]

\* analyze_lap_times on the table df = self.lap_times
analyze_lap_times(df, car_id) ==
    IF Unavailable(df) THEN NoneV
    ELSE LET car_id_col == get_car_id_column(df)
             rows == IF Truthy(car_id) /\ car_id_col # NoColumn
                     THEN SelectSeq(df.rows, LAMBDA r : r[car_id_col] = car_id)
                     ELSE df.rows
             lap_time_col == get_lap_time_column(df)
         IN  IF rows = <<>> THEN NoneV
             ELSE IF lap_time_col = NoColumn THEN NoneV
             ELSE LET xs == Column(rows, lap_time_col)
                  IN  [car_id            |-> car_id,
                       total_laps        |-> Len(rows),
                       best_lap          |-> SeqMin(xs),
                       worst_lap         |-> SeqMax(xs),
                       avg_lap           |-> <<Sum(xs), Len(xs)>>,
                       std_dev           |-> Std(xs),
                       consistency_score |-> ConsistencyScore(xs)]

\* a call that filters self.lap_times in place instead of a copy
AnalyzeLapTimesInPlaceMutant(car_id) ==
    /\ ret' = [op   |-> "analyze_lap_times",
               args |-> [car_id |-> car_id],
               val  |-> analyze_lap_times(lap_times, car_id)]
    /\ lap_times' =
          IF ~Unavailable(lap_times) /\ Truthy(car_id)
          THEN DataFrame(lap_times.cols,
                         SelectSeq(lap_times.rows,
                                   LAMBDA r : r[get_car_id_column(lap_times)]
                                                = car_id))
          ELSE lap_times
    /\ UNCHANGED <<fs, lap_starts, lap_ends, telemetry, pc, live_data, driver>>

\* a call of analyze_lap_times
AnalyzeLapTimes(car_id) ==
    /\ ret' = [op   |-> "analyze_lap_times",
               args |-> [car_id |-> car_id],
               val  |-> analyze_lap_times(lap_times, car_id)]
    /\ UNCHANGED <<fs, tables, pc, live_data, driver>>

(***************************************************************************)
(* generate_race_insights                                                  *)
(***************************************************************************)
\* Series.unique(): the distinct values in the order of their first occurrence
RECURSIVE Unique(_)
Unique(xs) ==
    IF xs = <<>> THEN <<>>
    ELSE LET u == Unique(SubSeq(xs, 1, Len(xs) - 1))
             x == xs[Len(xs)]
         IN  IF \E i \in 1..Len(u) : u[i] = x THEN u ELSE Append(u, x)

\* xs[:n]
Take(xs, n) == SubSeq(xs, 1, IF n < Len(xs) THEN n ELSE Len(xs))

\* a pit pass over every car
PitCarsAllMutant(car_ids) == car_ids

\* car_ids[:5]
PitCars(car_ids) == Take(car_ids, 5)

\* car_ids[:3]
TrendCars(car_ids) == Take(car_ids, 3)

Insight(priority, type, text, a, b, car_id) ==
    [priority |-> priority, type |-> type,
     message |-> [text |-> text, a |-> a, b |-> b], car_id |-> car_id]

\* a pit pass that evaluates every car at a lap of its own, car c at
\* current_lap - c
PitInsightOwnLapMutant(car_id, current_lap) ==
    LET pit_rec == predict_pit_window(car_id, current_lap - car_id,
                                      default_fuel_per_lap, default_tire_deg_rate)
    IN  IF pit_rec.urgency = "critical"
        THEN <<Insight("high", "pit_strategy", "PIT NOW", pit_rec.critical_factor,
                       pit_rec.laps_until_critical, car_id)>>
        ELSE IF pit_rec.urgency = "high"
        THEN <<Insight("medium", "pit_strategy", "Pit window opening in", "laps",
                       pit_rec.optimal_pit_lap - current_lap, car_id)>>
        ELSE <<>>

\* the insights of the pit pass for one car (none, or one)
PitInsight(car_id, current_lap) ==
    LET pit_rec == predict_pit_window(car_id, current_lap, default_fuel_per_lap,
                                      default_tire_deg_rate)
    IN  IF pit_rec.urgency = "critical"
        THEN <<Insight("high", "pit_strategy", "PIT NOW", pit_rec.critical_factor,
                       pit_rec.laps_until_critical, car_id)>>
        ELSE IF pit_rec.urgency = "high"
        THEN <<Insight("medium", "pit_strategy", "Pit window opening in", "laps",
                       pit_rec.optimal_pit_lap - current_lap, car_id)>>
        ELSE <<>>

\* a degradation test that includes the difference of exactly 0.5 s
DegradingInclusiveMutant(first, last) == last >= first + 5

\* lap_times[-1] > lap_times[0] + 0.5, in tenths of a second
Degrading(first, last) == last > first + 5

\* lap_times[-1] < lap_times[0] - 0.3
Improving(first, last) == last < first - 3

\* the insights of the trend pass for one car (none, or one)
TrendInsight(df, car_id_col, lap_col, lap_time_col, car_id, current_lap) ==
    LET recent_laps ==
            SelectSeq(df.rows, LAMBDA r : /\ r[car_id_col] = car_id
                                          /\ r[lap_col] >= current_lap - 5
                                          /\ r[lap_col] <= current_lap)
        xs == Column(recent_laps, lap_time_col)
    IN  IF Len(recent_laps) >= 3
        THEN IF Degrading(xs[1], xs[Len(xs)])
             THEN <<Insight("medium", "performance", "Lap times degrading", "", 0,
                            car_id)>>
             ELSE IF Improving(xs[1], xs[Len(xs)])
             THEN <<Insight("low", "performance", "Improving pace", "", 0, car_id)>>
             ELSE <<>>
        ELSE <<>>

\* the concatenation of F(car) over the cars, in order
RECURSIVE PitPass(_, _)
PitPass(cars, current_lap) ==
    IF cars = <<>> THEN <<>>
    ELSE PitInsight(Head(cars), current_lap) \o PitPass(Tail(cars), current_lap)

RECURSIVE TrendPass(_, _, _, _, _, _)
TrendPass(df, car_id_col, lap_col, lap_time_col, cars, current_lap) ==
    IF cars = <<>> THEN <<>>
    ELSE TrendInsight(df, car_id_col, lap_col, lap_time_col, Head(cars), current_lap)
           \o TrendPass(df, car_id_col, lap_col, lap_time_col, Tail(cars),
                        current_lap)

\* insights sorted by type name: the performance insights first
generate_race_insights_TrendFirstMutant(df, current_lap) ==
    IF Unavailable(df) THEN <<>>
    ELSE LET car_ids == Unique(Column(df.rows, get_car_id_column(df)))
         IN  (IF get_lap_column(df) # NoColumn /\ get_lap_time_column(df) # NoColumn
              THEN TrendPass(df, get_car_id_column(df), get_lap_column(df),
                             get_lap_time_column(df), TrendCars(car_ids),
                             current_lap)
              ELSE <<>>)
               \o PitPass(PitCars(car_ids), current_lap)

\* a generator that reports missing data as an insight of its own
generate_race_insights_NoDataInsightMutant(df, current_lap) ==
    IF Unavailable(df)
    THEN <<Insight("low", "data", "No lap data", "", 0, NoCar)>>
    ELSE LET car_ids == Unique(Column(df.rows, get_car_id_column(df)))
         IN  PitPass(PitCars(car_ids), current_lap)
               \o (IF get_lap_column(df) # NoColumn
                      /\ get_lap_time_column(df) # NoColumn
                   THEN TrendPass(df, get_car_id_column(df), get_lap_column(df),
                                  get_lap_time_column(df), TrendCars(car_ids),
                                  current_lap)
                   ELSE <<>>)

\* generate_race_insights on the table df = self.lap_times
generate_race_insights(df, current_lap) ==
    IF Unavailable(df) THEN <<>>
    ELSE LET car_id_col   == get_car_id_column(df)
             lap_col      == get_lap_column(df)
             lap_time_col == get_lap_time_column(df)
             car_ids      == Unique(Column(df.rows, car_id_col))
         IN  IF car_id_col = NoColumn THEN <<>>
             ELSE PitPass(PitCars(car_ids), current_lap)
                    \o (IF lap_col # NoColumn /\ lap_time_col # NoColumn
                        THEN TrendPass(df, car_id_col, lap_col, lap_time_col,
                                       TrendCars(car_ids), current_lap)
                        ELSE <<>>)

\* a call of generate_race_insights
GenerateRaceInsights(current_lap) ==
    /\ ret' = [op   |-> "generate_race_insights",
               args |-> [current_lap |-> current_lap],
               val  |-> generate_race_insights(lap_times, current_lap)]
    /\ UNCHANGED <<fs, tables, pc, live_data, driver>>

(***************************************************************************)
(* compare_drivers, export_live_data and analyze_telemetry_section         *)
(***************************************************************************)
\* an exception that leaves the call
Raised(exc) == [tag |-> "Raised", exc |-> exc]

\* str(x)
PyStr(x) == [str |-> x]

\* a.std() - b.std(): NaN when one of them is
StdDiff(a, b) ==
    IF a = NaN \/ b = NaN THEN NaN
    ELSE [kind |-> "sqrt-sqrt", of |-> <<a.of, b.of>>]

\* the best lap, average lap and standard deviation of the laps of one car
DriverStats(car_id, xs) ==
    [id |-> car_id, best_lap |-> SeqMin(xs), avg_lap |-> <<Sum(xs), Len(xs)>>,
     consistency |-> Std(xs)]

\* compare_drivers on the table df = self.lap_times
compare_drivers(df, car_id_1, car_id_2) ==
    IF Unavailable(df) THEN NoneV
    ELSE LET car_id_col   == get_car_id_column(df)
             lap_time_col == get_lap_time_column(df)
             car1_data == SelectSeq(df.rows, LAMBDA r : r[car_id_col] = car_id_1)
             car2_data == SelectSeq(df.rows, LAMBDA r : r[car_id_col] = car_id_2)
         IN  IF car_id_col = NoColumn \/ lap_time_col = NoColumn THEN NoneV
             ELSE IF car1_data = <<>> \/ car2_data = <<>> THEN NoneV
             ELSE LET xs == Column(car1_data, lap_time_col)
                      ys == Column(car2_data, lap_time_col)
                  IN  [car_1 |-> DriverStats(car_id_1, xs),
                       car_2 |-> DriverStats(car_id_2, ys),
                       delta |-> [best_lap |-> SeqMin(xs) - SeqMin(ys),
                                  avg_lap  |-> <<Sum(xs) * Len(ys)
                                                   - Sum(ys) * Len(xs),
                                                 Len(xs) * Len(ys)>>,
                                  consistency |-> StdDiff(Std(ys), Std(xs))]]

\* a call of compare_drivers
CompareDrivers(car_id_1, car_id_2) ==
    /\ ret' = [op   |-> "compare_drivers",
               args |-> [car_id_1 |-> car_id_1, car_id_2 |-> car_id_2],
               val  |-> compare_drivers(lap_times, car_id_1, car_id_2)]
    /\ UNCHANGED <<fs, tables, pc, live_data, driver>>

\* a snapshot that takes the last row of every car
CurrentLapDataLastRowMutant(car_laps, lap_col, current_lap) ==
    SubSeq(car_laps, Len(car_laps), Len(car_laps))

\* car_laps[car_laps[lap_col] == current_lap] if lap_col else car_laps.tail(1)
CurrentLapData(car_laps, lap_col, current_lap) ==
    IF lap_col # NoColumn
    THEN SelectSeq(car_laps, LAMBDA r : r[lap_col] = current_lap)
    ELSE SubSeq(car_laps, Len(car_laps), Len(car_laps))

\* the entries of race_state['cars'] before the sort, for the cars in turn
RECURSIVE ExportedCars(_, _, _, _, _, _)
ExportedCars(df, car_id_col, lap_col, lap_time_col, car_ids, current_lap) ==
    IF car_ids = <<>> THEN <<>>
    ELSE LET car_id   == Head(car_ids)
             car_laps == SelectSeq(df.rows, LAMBDA r : r[car_id_col] = car_id)
             current_lap_data == CurrentLapData(car_laps, lap_col, current_lap)
             xs == Column(car_laps, lap_time_col)
             car_data ==
                 IF Len(current_lap_data) > 0
                 THEN <<[car_id   |-> PyStr(car_id),
                         position |-> NoneV,
                         last_lap |-> current_lap_data[1][lap_time_col],
                         best_lap |-> SeqMin(xs),
                         avg_lap  |-> <<Sum(xs), Len(xs)>>,
                         pit_recommendation |->
                             predict_pit_window(car_id, current_lap,
                                                default_fuel_per_lap,
                                                default_tire_deg_rate)]>>
                 ELSE <<>>
         IN  car_data \o ExportedCars(df, car_id_col, lap_col, lap_time_col,
                                      Tail(car_ids), current_lap)

\* a list whose cars stay in table-encounter order
SortedByUnsortedMutant(cars, key) == cars

\* list.sort(key=lambda x: x[key]): ascending and stable, equal keys keep
\* their order
RECURSIVE SortedBy(_, _)
SortedBy(cars, key) ==
    IF cars = <<>> THEN <<>>
    ELSE LET sorted == SortedBy(SubSeq(cars, 1, Len(cars) - 1), key)
             car    == cars[Len(cars)]
         IN  SelectSeq(sorted, LAMBDA c : c[key] <= car[key])
               \o <<car>>
               \o SelectSeq(sorted, LAMBDA c : c[key] > car[key])

\* car['position'] = i + 1
WithPositions(cars) ==
    [i \in 1..Len(cars) |-> [cars[i] EXCEPT !.position = i]]

\* a snapshot whose insights are restricted to the cars it exports
export_live_data_OwnInsightsMutant(df, current_lap) ==
    IF Unavailable(df) THEN NoneV
    ELSE IF get_lap_time_column(df) = NoColumn THEN NoneV
    ELSE LET cars == WithPositions(SortedBy(
                         ExportedCars(df, get_car_id_column(df),
                                      get_lap_column(df), get_lap_time_column(df),
                                      Unique(Column(df.rows, get_car_id_column(df))),
                                      current_lap), "best_lap"))
         IN  [current_lap |-> current_lap,
              cars |-> cars,
              insights |->
                  SelectSeq(generate_race_insights(df, current_lap),
                            LAMBDA ins : \E i \in 1..Len(cars) :
                                            cars[i].car_id = PyStr(ins.car_id))]

\* export_live_data on the table df = self.lap_times: the race_state returned
\* and written to the output file, or None
export_live_data(df, current_lap) ==
    IF Unavailable(df) THEN NoneV
    ELSE LET car_id_col   == get_car_id_column(df)
             lap_time_col == get_lap_time_column(df)
             lap_col      == get_lap_column(df)
         IN  IF car_id_col = NoColumn \/ lap_time_col = NoColumn THEN NoneV
             ELSE [current_lap |-> current_lap,
                   cars |-> WithPositions(SortedBy(
                                ExportedCars(df, car_id_col, lap_col, lap_time_col,
                                             Unique(Column(df.rows, car_id_col)),
                                             current_lap), "best_lap")),
                   insights |-> generate_race_insights(df, current_lap)]

\* json.dump can encode a snapshot or the result of a race: str, int, float,
\* None, list, tuple and dict are encoded, a numpy.int64 raises TypeError; the
\* car ids of pit_recommendation and of the insights are the elements of
\* unique()
JsonSerializable(race_data) ==
    /\ \A i \in 1..Len(race_data.cars) :
          ~IsInt64(race_data.cars[i].pit_recommendation.car_id)
    /\ \A i \in 1..Len(race_data.insights) :
          ~IsInt64(race_data.insights[i].car_id)

\* an output file after a dump that raised: opened for writing, and not a
\* complete document
Incomplete == [tag |-> "Incomplete"]

\* a call of export_live_data: the snapshot is written to the output file and
\* returned; an exception of json.dump leaves the call
ExportLiveData(current_lap) ==
    LET race_state == export_live_data(lap_times, current_lap)
    IN  /\ ret' = [op   |-> "export_live_data",
                   args |-> [current_lap |-> current_lap],
                   val  |-> IF race_state = NoneV \/ JsonSerializable(race_state)
                            THEN race_state
                            ELSE Raised("TypeError")]
        /\ live_data' = IF race_state = NoneV THEN live_data
                        ELSE IF JsonSerializable(race_state) THEN race_state
                        ELSE Incomplete
        /\ UNCHANGED <<fs, tables, pc, driver>>

\* the number of rows with heavy braking
BrakingPoints(rows) ==
    Cardinality({i \in 1..Len(rows) : rows[i].pbrake_f > 50})

Abs(x) == IF x < 0 THEN -x ELSE x

\* section_data['Gear'].diff().abs().sum()
GearChanges(rows) ==
    Sum([i \in 1..(Len(rows) - 1) |-> Abs(rows[i + 1].Gear - rows[i].Gear)])

\* analyze_telemetry_section on the table tel = self.telemetry; indexing a
\* column the table does not have raises KeyError
analyze_telemetry_section(tel, car_id, section_start, section_end) ==
    IF tel = NoneV THEN NoneV
    ELSE IF ~HasColumn(tel, "CarId") THEN Raised("KeyError")
    ELSE IF ~HasColumn(tel, "Distance") THEN Raised("KeyError")
    ELSE LET section_data ==
                 SelectSeq(tel.rows, LAMBDA r : /\ r.CarId = car_id
                                                /\ r.Distance >= section_start
                                                /\ r.Distance <= section_end)
         IN  IF Len(section_data) = 0 THEN NoneV
             ELSE IF \E col \in {"Speed", "ath", "pbrake_f", "Gear"} :
                        ~HasColumn(tel, col)
             THEN Raised("KeyError")
             ELSE [car_id    |-> car_id,
                   section   |-> <<section_start, section_end>>,
                   avg_speed |-> <<Sum(Column(section_data, "Speed")),
                                   Len(section_data)>>,
                   max_speed |-> SeqMax(Column(section_data, "Speed")),
                   min_speed |-> SeqMin(Column(section_data, "Speed")),
                   avg_throttle |-> <<Sum(Column(section_data, "ath")),
                                      Len(section_data)>>,
                   braking_points |-> BrakingPoints(section_data),
                   gear_changes |-> GearChanges(section_data)]

\* a call of analyze_telemetry_section
AnalyzeTelemetrySection(car_id, section_start, section_end) ==
    /\ ret' = [op   |-> "analyze_telemetry_section",
               args |-> [car_id |-> car_id, section_start |-> section_start,
                         section_end |-> section_end],
               val  |-> analyze_telemetry_section(telemetry, car_id,
                                                  section_start, section_end)]
    /\ UNCHANGED <<fs, tables, pc, live_data, driver>>

\* calls of the column lookups
GetCarIdColumn ==
    /\ ret' = [op |-> "_get_car_id_column", val |-> get_car_id_column(lap_times)]
    /\ UNCHANGED <<fs, tables, pc, live_data, driver>>

GetLapTimeColumn ==
    /\ ret' = [op  |-> "_get_lap_time_column",
               val |-> get_lap_time_column(lap_times)]
    /\ UNCHANGED <<fs, tables, pc, live_data, driver>>

GetLapColumn ==
    /\ ret' = [op |-> "_get_lap_column", val |-> get_lap_column(lap_times)]
    /\ UNCHANGED <<fs, tables, pc, live_data, driver>>

(***************************************************************************)
(* SpecInsights: insights over directly supplied lap-time tables           *)
(***************************************************************************)
LapTimeColumns == <<"vehicle_id", "lap", "lap_time">>

\* the laps a table records, and the laps asked about
RecordedLaps == 24..27

\* (with the default rates the urgency is medium up to lap 25, high on laps
\* 26..28 and critical from lap 29)
InsightLaps == {25, 26, 28, 29, 30, 31}

\* the change of a car's lap time per lap, in tenths of a second
Slopes == {-3, 5}

\* the sequences over S without repetition, of length n
InjectiveSeqs(S, n) ==
    {q \in [1..n -> S] : \A i, j \in 1..n : q[i] = q[j] => i = j}

\* the timing table of a race: for each recorded lap in turn, one row per car
\* of the grid in turn; car c laps in 90 s + c/10 s, changing by slope[c]
\* tenths of a second per lap
RECURSIVE RaceRows(_, _, _)
RaceRows(grid, laps, slope) ==
    IF laps = <<>> THEN <<>>
    ELSE [i \in 1..Len(grid) |->
             [vehicle_id |-> grid[i], lap |-> Head(laps),
              lap_time |-> 900 + grid[i] + slope[grid[i]] * (Head(laps) - 24)]]
           \o RaceRows(grid, Tail(laps), slope)

RaceTable(grid, laps, slope) ==
    DataFrame(LapTimeColumns, RaceRows(grid, laps, slope))

\* the cars 1..k in ascending or in descending order
Grids(k) == {[i \in 1..k |-> i], [i \in 1..k |-> k + 1 - i]}

\* no lap-time file, or one lap of the cars 1..n, n <= NumCars, in any order,
\* or up to MaxLaps laps, in any order, of the cars 1..k, k <= DeepCars, in
\* ascending or descending order
InitInsights ==
    /\ \/ fs = NoFiles
       \/ \E n \in 0..NumCars : \E grid \in InjectiveSeqs(1..n, n) :
            fs = Files(RaceTable(grid, <<26>>, [c \in 1..NumCars |-> 0]),
                       NoneV, NoneV, NoneV)
       \/ \E k \in 1..DeepCars : \E n \in 0..MaxLaps :
          \E laps \in InjectiveSeqs(RecordedLaps, n) :
          \E slope \in [1..k -> Slopes] : \E grid \in Grids(k) :
            fs = Files(RaceTable(grid, laps, slope), NoneV, NoneV, NoneV)
    /\ Constructed /\ Quiet

NextInsights ==
    \/ LoadData
    \/ \E current_lap \in InsightLaps : GenerateRaceInsights(current_lap)

SpecInsights == InitInsights /\ [][NextInsights]_vars

(***************************************************************************)
(* SpecLoad: load_data over lap-start, lap-end and direct lap-time files   *)
(***************************************************************************)
EventColumns == <<"vehicle_id", "lap", "timestamp">>

\* the (car, lap) keys of the events
EventKeys == {<<1, 1>>, <<1, 2>>, <<2, 1>>}

\* timestamps in seconds: the durations are 20, 30, 40, 300 and 310 s
StartStamps == {0, 10}

EndStamps == {30, 40, 310}

EventRows(stamps) ==
    {[vehicle_id |-> k[1], lap |-> k[2], timestamp |-> t] :
        k \in EventKeys, t \in stamps}

\* an event file without its timestamp column
NoTimestampFile ==
    DataFrame(<<"vehicle_id", "lap">>, <<[vehicle_id |-> 1, lap |-> 1]>>)

\* an event file of k rows; instead of an empty file also a missing one, one
\* that cannot be parsed and one without its timestamp column
EventFiles(stamps, k) ==
    IF k = 0
    THEN {DataFrame(EventColumns, <<>>), NoneV, Unreadable, NoTimestampFile}
    ELSE {DataFrame(EventColumns, rows) : rows \in [1..k -> EventRows(stamps)]}

\* a directly supplied lap-time table (of another car than the events')
DirectLapTimes ==
    DataFrame(<<"vehicle_id", "lap", "lap_time">>,
              <<[vehicle_id |-> 3, lap |-> 1, lap_time |-> 900],
                [vehicle_id |-> 3, lap |-> 2, lap_time |-> 905]>>)

\* the files of a race: at most MaxEvents event rows in the two event files
InitLoad ==
    /\ \E k \in 0..MaxEvents : \E j \in 0..(MaxEvents - k) :
         \E d \in {NoneV, DirectLapTimes} :
         \E s \in EventFiles(StartStamps, k) : \E e \in EventFiles(EndStamps, j) :
            fs = Files(d, s, e, NoneV)
    /\ Constructed /\ Quiet

\* the cars asked about after a load
AnalysisCars == {NoCar, 1, 2, 3}

NextLoad ==
    \/ LoadData
    \/ \E car_id \in AnalysisCars : AnalyzeLapTimes(car_id)

SpecLoad == InitLoad /\ [][NextLoad]_vars

(***************************************************************************)
(* SpecQuery: every query over lap-time tables of several schemas and over *)
(* telemetry files                                                         *)
(***************************************************************************)
\* the cars of a table of SpecQuery are 1..k, k <= FieldSize
FieldSize == 2

\* the laps of one car, as <<lap, lap time in tenths of a second>>: the lap
\* asked about only; an earlier lap only; both, the earlier the faster; the lap
\* asked about twice; both, the earlier one last
Profiles ==
    {<< <<26, 900>> >>,
     << <<25, 910>> >>,
     << <<25, 895>>, <<26, 905>> >>,
     << <<26, 905>>, <<26, 900>> >>,
     << <<26, 900>>, <<25, 905>> >>}

\* the columns of a table: the name of each and the quantity it holds; "car2",
\* "lap2" and "time2" are a second numbering of cars, laps and times
Schemas ==
    {<< <<"vehicle_id", "car">>, <<"lap", "lap">>, <<"lap_time", "time">> >>,
     << <<"lap_time", "time">>, <<"Lap", "lap">>, <<"Car", "car">> >>,
     << <<"vehicle_id", "car">>, <<"lap_time", "time">> >>,
     << <<"vehicle_id", "car">>, <<"lap", "lap">> >>,
     << <<"NUMBER", "car">>, <<"lap_number", "lap">>, <<"elapsed", "time">> >>,
     << <<"LAP_NUMBER", "lap">>, <<"NUMBER", "car">>, <<"LAP_TIME", "time">> >>,
     << <<"vehicle_number", "car2">>, <<"vehicle_id", "car">>,
        <<"elapsed", "time2">>, <<"time", "time">>,
        <<"lap_number", "lap2">>, <<"lap", "lap">> >>,
     << <<"vehicle_id", "car">>, <<"vehicle_number", "car2">>,
        <<"time", "time">>, <<"elapsed", "time2">>,
        <<"lap", "lap">>, <<"lap_number", "lap2">> >>}

\* the value a column holds in the row of a car's lap
Quantity(of, car, lap) ==
    CASE of = "car"   -> car
      [] of = "car2"  -> car + 10
      [] of = "lap"   -> lap[1]
      [] of = "lap2"  -> lap[1] - 20
      [] of = "time"  -> lap[2]
      [] of = "time2" -> lap[2] + 1000

\* the rows of the cars 1..k in turn, each with the laps of its profile
RECURSIVE ProfileRows(_, _, _)
ProfileRows(schema, profile, car) ==
    IF car > Len(profile) THEN <<>>
    ELSE [i \in 1..Len(profile[car]) |->
             [c \in {schema[j][1] : j \in 1..Len(schema)} |->
                 LET j == CHOOSE j \in 1..Len(schema) : schema[j][1] = c
                 IN  Quantity(schema[j][2], car, profile[car][i])]]
           \o ProfileRows(schema, profile, car + 1)

ProfileTable(schema, profile) ==
    DataFrame([j \in 1..Len(schema) |-> schema[j][1]],
              ProfileRows(schema, profile, 1))

\* telemetry files: in long format (two samples of car 1, the speed of the
\* first given twice); or in wide format, which the pivot leaves as it is,
\* with every column the section analysis reads, without Distance, without
\* CarId and without Gear
LongTelemetry ==
    DataFrame(<<"vehicle_id", "lap", "timestamp", "telemetry_name",
                "telemetry_value">>,
              <<[vehicle_id |-> 1, lap |-> 2, timestamp |-> 20,
                 telemetry_name |-> "Speed", telemetry_value |-> 130],
                [vehicle_id |-> 1, lap |-> 1, timestamp |-> 10,
                 telemetry_name |-> "Speed", telemetry_value |-> 120],
                [vehicle_id |-> 1, lap |-> 1, timestamp |-> 10,
                 telemetry_name |-> "Distance", telemetry_value |-> 50],
                [vehicle_id |-> 1, lap |-> 1, timestamp |-> 10,
                 telemetry_name |-> "Speed", telemetry_value |-> 125]>>)

WideColumns == <<"CarId", "Distance", "Speed", "ath", "pbrake_f", "Gear">>

WideRows ==
    <<[CarId |-> 1, Distance |-> 50, Speed |-> 120, ath |-> 80, pbrake_f |-> 0,
       Gear |-> 4],
      [CarId |-> 1, Distance |-> 80, Speed |-> 90, ath |-> 0, pbrake_f |-> 60,
       Gear |-> 2],
      [CarId |-> 2, Distance |-> 50, Speed |-> 110, ath |-> 70, pbrake_f |-> 0,
       Gear |-> 3]>>

\* the wide table without one of its columns
WideTelemetryWithout(col) ==
    LET cols == SelectSeq(WideColumns, LAMBDA c : c # col)
    IN  DataFrame(cols,
                  [i \in 1..Len(WideRows) |->
                      [c \in {cols[j] : j \in 1..Len(cols)} |-> WideRows[i][c]]])

TelemetryFiles ==
    {LongTelemetry, Unreadable, DataFrame(WideColumns, WideRows),
     WideTelemetryWithout("Distance"), WideTelemetryWithout("CarId"),
     WideTelemetryWithout("Gear")}

\* a lap-time table that names its cars by number, the cars 0 and 7
NumberedLapTimes ==
    DataFrame(<<"vehicle_number", "lap", "lap_time">>,
              <<[vehicle_number |-> Int64(0), lap |-> 25, lap_time |-> 895],
                [vehicle_number |-> Int64(7), lap |-> 26, lap_time |-> 905],
                [vehicle_number |-> Int64(0), lap |-> 26, lap_time |-> 900]>>)

\* a lap-time table of up to FieldSize cars in one of the schemas, or of up to
\* NumCars cars with one lap each, the slowest first, or none, without
\* telemetry; or one
\* lap-time table and a telemetry file
InitQuery ==
    /\ \/ \E k \in 0..FieldSize : \E profile \in [1..k -> Profiles] :
          \E schema \in Schemas :
            fs = Files(ProfileTable(schema, profile), NoneV, NoneV, NoneV)
       \/ \E n \in 0..NumCars :
            fs = Files(RaceTable([i \in 1..n |-> n + 1 - i], <<26>>,
                                 [c \in 1..NumCars |-> 0]), NoneV, NoneV, NoneV)
       \/ \E d \in {NoneV, Unreadable, DirectLapTimes} : \E t \in TelemetryFiles :
            fs = Files(d, NoneV, NoneV, t)
       \/ fs = Files(NumberedLapTimes, NoneV, NoneV, NoneV)
       \/ fs = NoFiles
    /\ Constructed /\ Quiet

\* the laps asked about
QueryLaps == {26, 30}

\* the car ids asked about besides AnalysisCars: '', 0 and 7
NumberedCars == {EmptyStr, Int64(0), Int64(7)}

\* the track sections asked about, in metres
Sections == {<<0, 100>>, <<60, 100>>, <<200, 300>>}

NextQuery ==
    \/ LoadData
    \/ \E car_id \in AnalysisCars \cup NumberedCars : AnalyzeLapTimes(car_id)
    \/ \E car_id_1 \in {1, 2}, car_id_2 \in {2, 3} :
          CompareDrivers(car_id_1, car_id_2)
    \/ \E car_id \in QueryCars, current_lap \in QueryLaps :
          PredictPitWindow(car_id, current_lap, default_fuel_per_lap,
                           default_tire_deg_rate)
    \/ \E current_lap \in QueryLaps : GenerateRaceInsights(current_lap)
    \/ \E current_lap \in QueryLaps : ExportLiveData(current_lap)
    \/ \E car_id \in {1, 2}, section \in Sections :
          AnalyzeTelemetrySection(car_id, section[1], section[2])
    \/ GetCarIdColumn
    \/ GetLapTimeColumn
    \/ GetLapColumn

SpecQuery == InitQuery /\ [][NextQuery]_vars

(***************************************************************************)
(* The batch driver (src/process_all_tracks.py)                            *)
(***************************************************************************)
\* the value of a lap-number cell that is empty in the file (NaN)
MissingLap == -1

\* tracks of process_all_tracks, and str.upper() of their lower-case names
Tracks ==
    <<"barber", "COTA", "indianapolis", "Road America", "sebring", "Sonoma",
      "VIR">>

UpperNames ==
    <<"BARBER", "COTA", "INDIANAPOLIS", "ROAD AMERICA", "SEBRING", "SONOMA",
      "VIR">>

\* the nearest integer to n/d, d > 0, a tie to the even one (Python round)
PyRound(n, d) ==
    LET q == n \div d
        r == n % d
    IN  IF 2 * r < d THEN q
        ELSE IF 2 * r > d THEN q + 1
        ELSE IF q % 2 = 0 THEN q ELSE q + 1

\* a freshly constructed engine
FreshEngine ==
    [lap_times |-> NoneV, lap_starts |-> NoneV, lap_ends |-> NoneV,
     telemetry |-> NoneV, raised |-> FALSE]

\* a verification that accepts every race
verify_data_integrity_AcceptAllMutant(race_data) ==
    [is_valid |-> TRUE, issues |-> <<>>]

\* verify_data_integrity: invalid without cars or with a best lap under 10 s;
\* the issues name the number of such cars and the first three of them
verify_data_integrity(race_data) ==
    IF race_data = NoneV
    THEN [is_valid |-> FALSE, issues |-> <<"Invalid race data structure">>]
    ELSE IF race_data.cars = <<>>
    THEN [is_valid |-> FALSE, issues |-> <<"No cars found in race data">>]
    ELSE LET bad_lap_times ==
                 SelectSeq(race_data.cars,
                           LAMBDA car : car.best_lap_time < Tenths(10))
         IN  IF bad_lap_times # <<>>
             THEN [is_valid |-> FALSE,
                   issues |-> <<[critical |-> Len(bad_lap_times)]>>
                                \o [i \in 1..Len(Take(bad_lap_times, 3)) |->
                                       [car |-> bad_lap_times[i].car_id,
                                        lap_time |-> bad_lap_times[i].best_lap_time]]]
             ELSE [is_valid |-> TRUE, issues |-> <<>>]

\* the non-missing values of a column
Present(xs) == SelectSeq(xs, LAMBDA x : x # MissingLap)

\* the entries of race_data['cars'] before the sort, for the cars in turn;
\* times are kept in thousandths of a second where the code rounds to 3 places
RECURSIVE RaceCars(_, _, _, _, _)
RaceCars(df, car_id_col, lap_time_col, car_ids, current_lap) ==
    IF car_ids = <<>> THEN <<>>
    ELSE LET car_id   == Head(car_ids)
             car_laps == SelectSeq(df.rows, LAMBDA r : r[car_id_col] = car_id)
             xs       == Column(car_laps, lap_time_col)
         IN  <<[car_id            |-> PyStr(car_id),
                total_laps        |-> Len(car_laps),
                best_lap_time     |-> SeqMin(xs),
                avg_lap_time      |-> PyRound(100 * Sum(xs), Len(xs)),
                consistency_score |-> IF ConsistencyScore(xs) = NaN THEN NaN
                                      ELSE [kind |-> "round1",
                                            of |-> ConsistencyScore(xs)],
                pit_recommendation |->
                    predict_pit_window(car_id, current_lap, default_fuel_per_lap,
                                       default_tire_deg_rate),
                status            |-> "Active",
                position          |-> NoneV]>>
               \o RaceCars(df, car_id_col, lap_time_col, Tail(car_ids),
                           current_lap)

\* the first five cars of the sorted list
TopPerformers(cars) ==
    [i \in 1..Len(Take(cars, 5)) |->
        [position |-> i, car_id |-> cars[i].car_id,
         best_lap |-> cars[i].best_lap_time]]

\* one printed line about a race
Line(level, track, race_num, what) ==
    [level |-> level, track |-> track, race |-> race_num, what |-> what]

\* the body of the try block of process_single_race on the files of a race
\* directory: what it returns (val) or the exception that leaves it, and the
\* lines it prints
race_body(track_name, race_num, files) ==
    LET analytics == load_data(FreshEngine, files)
        df == analytics.lap_times
    IN  IF analytics.raised
        THEN [val |-> NoneV,
              out |-> <<Line("FAIL", track_name, race_num, "Failed to load data")>>]
        ELSE IF Unavailable(df)
        THEN [val |-> NoneV,
              out |-> <<Line("WARN", track_name, race_num, "No lap data")>>]
        ELSE IF get_car_id_column(df) = NoColumn
                  \/ get_lap_time_column(df) = NoColumn
        THEN [val |-> NoneV, out |-> <<>>]
        ELSE IF get_lap_column(df) # NoColumn
                  /\ Present(Column(df.rows, get_lap_column(df))) = <<>>
        THEN [val |-> Raised("ValueError"), out |-> <<>>]
        ELSE LET current_lap ==
                     IF get_lap_column(df) # NoColumn
                     THEN SeqMax(Present(Column(df.rows, get_lap_column(df))))
                     ELSE 50
                 cars == WithPositions(SortedBy(
                             RaceCars(df, get_car_id_column(df),
                                      get_lap_time_column(df),
                                      Unique(Column(df.rows, get_car_id_column(df))),
                                      current_lap), "best_lap_time"))
                 race_data ==
                     [track |-> track_name, race |-> race_num,
                      current_lap |-> current_lap,
                      total_laps_completed |-> current_lap,
                      cars |-> cars,
                      insights |-> generate_race_insights(df, current_lap),
                      weather |-> NoneV,
                      top_performers |-> TopPerformers(cars)]
                 checked == verify_data_integrity(race_data)
             IN  [val |-> race_data,
                  out |-> (IF checked.is_valid THEN <<>>
                           ELSE <<Line("WARN", track_name, race_num,
                                       <<"Data integrity issues", checked.issues>>)>>)
                          \o <<Line("OK", track_name, race_num,
                                    <<Len(cars), Len(race_data.insights)>>)>>]

\* process_single_race: an exception of the body is caught, printed, and the
\* call returns None
process_single_race(track_name, race_num, files) ==
    IF race_body(track_name, race_num, files).val = Raised("ValueError")
    THEN [val |-> NoneV,
          out |-> <<Line("FAIL", track_name, race_num, "Error processing")>>]
    ELSE race_body(track_name, race_num, files)

\* a track directory: absent, or with the files of both races in it (flat), or
\* with the subdirectories 'Race 1' and, possibly, 'Race 2' (multi);
\* races[r] are the files of race r, Absent without the subdirectory
Absent == [tag |-> "Absent"]

TrackDir(kind, race_1, race_2) == [kind |-> kind, races |-> <<race_1, race_2>>]

\* process_all_tracks up to its loop: the empty all_results
StartBatch ==
    /\ at = Idle
    /\ at' = [pc |-> "tracks", track |-> 1, race_num |-> 1]
    /\ batch' = [all_results |->
                     [summary |-> [total_tracks |-> 0, successful_tracks |-> 0,
                                   total_races |-> 0, total_cars |-> 0,
                                   total_insights |-> 0],
                      tracks |-> <<>>],
                 log |-> <<>>, saved |-> NoneV, all_valid |-> NoneV]
    /\ UNCHANGED <<fs, tables, pc, ret, live_data, tree>>

\* the position in the loops after the pair (track, race_num)
Advance(pos) ==
    IF pos.race_num = 1 THEN [pos EXCEPT !.race_num = 2]
    ELSE IF pos.track < Len(Tracks)
    THEN [pos EXCEPT !.track = @ + 1, !.race_num = 1]
    ELSE [pc |-> "summary"]

\* all_results after "if result:" with the result of a race
Collect(all_results, result) ==
    IF result = NoneV THEN all_results
    ELSE [all_results EXCEPT
             !.tracks = Append(@, result),
             !.summary.total_races = @ + 1,
             !.summary.total_cars = @ + Len(result.cars),
             !.summary.total_insights = @ + Len(result.insights)]

\* one iteration of "for race_num in [1, 2]" for the current track: the race
\* is processed when its directory exists; an exception that leaves
\* process_single_race leaves process_all_tracks
ProcessRace ==
    /\ at.pc = "tracks"
    /\ LET dir   == tree[at.track]
           files == dir.races[at.race_num]
       IN  IF dir.kind = "absent" \/ files = Absent
           THEN at' = Advance(at) /\ UNCHANGED batch
           ELSE LET done == process_single_race(UpperNames[at.track],
                                                at.race_num, files)
                IN  IF done.val = Raised("ValueError")
                    THEN /\ at' = [pc |-> "crashed", in |-> "process_single_race"]
                         /\ UNCHANGED batch
                    ELSE /\ at' = Advance(at)
                         /\ batch' = [batch EXCEPT
                                         !.all_results = Collect(@, done.val),
                                         !.log = @ \o done.out]
    /\ UNCHANGED <<fs, tables, pc, ret, live_data, tree>>

\* a summary that counts the directories that exist and the tracks with at
\* least one result
SummarizeCountedTracksMutant ==
    /\ at.pc = "summary"
    /\ LET all_results ==
               [batch.all_results EXCEPT
                   !.summary.total_tracks =
                       Cardinality({i \in 1..Len(Tracks) :
                                       tree[i].kind # "absent"}),
                   !.summary.successful_tracks =
                       Cardinality({batch.all_results.tracks[i].track :
                                       i \in 1..Len(batch.all_results.tracks)})]
       IN  IF \A i \in 1..Len(all_results.tracks) :
                 JsonSerializable(all_results.tracks[i])
           THEN /\ at' = [pc |-> "verify"]
                /\ batch' = [batch EXCEPT !.all_results = all_results,
                                          !.saved = all_results]
           ELSE /\ at' = [pc |-> "crashed", in |-> "json.dump"]
                /\ batch' = [batch EXCEPT !.all_results = all_results,
                                          !.saved = Incomplete]
    /\ UNCHANGED <<fs, tables, pc, ret, live_data, tree>>

\* the summary counts after the loop, and the dump to all_tracks_results.json;
\* an exception of json.dump leaves process_all_tracks
Summarize ==
    /\ at.pc = "summary"
    /\ LET all_results ==
               [batch.all_results EXCEPT
                   !.summary.total_tracks = Len(Tracks),
                   !.summary.successful_tracks =
                       Len(SelectSeq(batch.all_results.tracks,
                                     LAMBDA t : t # NoneV)) \div 2]
       IN  IF \A i \in 1..Len(all_results.tracks) :
                 JsonSerializable(all_results.tracks[i])
           THEN /\ at' = [pc |-> "verify"]
                /\ batch' = [batch EXCEPT !.all_results = all_results,
                                          !.saved = all_results]
           ELSE /\ at' = [pc |-> "crashed", in |-> "json.dump"]
                /\ batch' = [batch EXCEPT !.all_results = all_results,
                                          !.saved = Incomplete]
    /\ UNCHANGED <<fs, tables, pc, ret, live_data, tree>>

\* the line of the final verification about one race
VerificationLine(track_data) ==
    LET checked == verify_data_integrity(track_data)
    IN  IF ~checked.is_valid
        THEN Line("CRITICAL", track_data.track, track_data.race,
                  <<"failed verification", checked.issues>>)
        ELSE Line("OK", track_data.track, track_data.race,
                  <<Len(track_data.cars),
                    SeqMin(Column(track_data.cars, "best_lap_time"))>>)

\* the final verification of every collected race; all_results is returned
FinalVerification ==
    /\ at.pc = "verify"
    /\ at' = [pc |-> "done"]
    /\ LET races == batch.all_results.tracks
       IN  batch' = [batch EXCEPT
               !.log = @ \o [i \in 1..Len(races) |-> VerificationLine(races[i])],
               !.all_valid = \A i \in 1..Len(races) :
                                verify_data_integrity(races[i]).is_valid]
    /\ UNCHANGED <<fs, tables, pc, ret, live_data, tree>>

(***************************************************************************)
(* SpecBatch: the batch over track directories                             *)
(***************************************************************************)
\* the lap-time file of a race
RaceFile(rows) == Files(DataFrame(LapTimeColumns, rows), NoneV, NoneV, NoneV)

\* two cars, the second with one lap of exactly 10.0 s
GoodRace ==
    RaceFile(<<[vehicle_id |-> 1, lap |-> 1, lap_time |-> 905],
               [vehicle_id |-> 2, lap |-> 1, lap_time |-> 100],
               [vehicle_id |-> 1, lap |-> 2, lap_time |-> 900]>>)

\* two cars, the second with a lap of 9.9 s
FastRace ==
    RaceFile(<<[vehicle_id |-> 1, lap |-> 26, lap_time |-> 900],
               [vehicle_id |-> 2, lap |-> 26, lap_time |-> 99]>>)

\* a lap-time file whose lap numbers are all empty
UnnumberedRace ==
    RaceFile(<<[vehicle_id |-> 1, lap |-> MissingLap, lap_time |-> 900]>>)

\* a lap-time file that names its cars by number only
NumberedRace ==
    Files(DataFrame(<<"vehicle_number", "lap", "lap_time">>,
                    <<[vehicle_number |-> Int64(7), lap |-> 1, lap_time |-> 905],
                      [vehicle_number |-> Int64(7), lap |-> 2, lap_time |-> 900]>>),
          NoneV, NoneV, NoneV)

\* a lap-time file that cannot be parsed
UnreadableRace == Files(Unreadable, NoneV, NoneV, NoneV)

RaceDirs ==
    {GoodRace, FastRace, NumberedRace, UnnumberedRace, UnreadableRace, NoFiles}

TrackDirs ==
    {TrackDir("absent", Absent, Absent)}
      \cup {TrackDir("flat", a, b) : a \in RaceDirs, b \in RaceDirs}
      \cup {TrackDir("multi", a, b) : a \in RaceDirs, b \in {GoodRace, Absent}}

\* the tracks whose directory is any of TrackDirs; the others hold two good
\* races
OddTracks == {2, 5}

InitBatch ==
    /\ fs = NoFiles /\ Constructed /\ live_data = NoneV
    /\ at = Idle /\ batch = NoBatch
    /\ \E odd \in [OddTracks -> TrackDirs] :
          tree = [i \in 1..Len(Tracks) |->
                     IF i \in OddTracks THEN odd[i]
                     ELSE TrackDir("flat", GoodRace, GoodRace)]

NextBatch ==
    \/ StartBatch
    \/ ProcessRace
    \/ Summarize
    \/ FinalVerification

SpecBatch == InitBatch /\ [][NextBatch]_vars

\* process_all_tracks moves on to its next position
Proceeds ==
    /\ at.pc \notin {"done", "crashed"}
    /\ at' = CASE at.pc = "idle"    -> [pc |-> "tracks", track |-> 1, race_num |-> 1]
               [] at.pc = "tracks"  -> Advance(at)
               [] at.pc = "summary" -> [pc |-> "verify"]
               [] at.pc = "verify"  -> [pc |-> "done"]

\* the driver runs on: it does not stop before it has returned or an
\* exception has left it
SpecBatchFair == SpecBatch /\ WF_at(Proceeds)

(***************************************************************************)
(* Claims about predict_pit_window (checked under SpecPit)                 *)
(***************************************************************************)
\* C1 (as amended): for every current_lap >= 0 and positive rates, the critical
\* factor is fuel exactly when fuel has strictly fewer laps remaining than
\* tires, and tires otherwise; laps_remaining is the smaller value and
\* laps_until_critical is it rounded to one decimal; when both are equal the
\* critical factor is tires.
C1_CriticalFactor ==
    IsPit =>
        LET a == ret.args
            v == ret.val
            onFuel  == ExactLaps(a.fuel_per_lap, a.current_lap)
            onTires == ExactLaps(a.tire_deg_rate, a.current_lap)
        IN  /\ v.critical_factor = "fuel" <=> RatLess(onFuel, onTires)
            /\ v.critical_factor = "tires" <=> ~RatLess(onFuel, onTires)
            /\ ~RatLess(onFuel, v.laps_remaining)
            /\ ~RatLess(onTires, v.laps_remaining)
            /\ RatEq(v.laps_remaining, onFuel) \/ RatEq(v.laps_remaining, onTires)
            /\ v.laps_until_critical
                 = PyRound1(v.laps_remaining[1], v.laps_remaining[2])
            /\ RatEq(onFuel, onTires) => v.critical_factor = "tires"

\* C1 witness: a prediction with equal rates, so that fuel and tires tie
C1_Witness ==
    /\ IsPit
    /\ ret.args.fuel_per_lap = ret.args.tire_deg_rate
    /\ ret.val.critical_factor = "tires"

\* C1 as stated: the critical factor is the resource with the smaller value,
\* and fuel when the two values are equal.
C1_Original ==
    IsPit =>
        LET a == ret.args
            onFuel  == ExactLaps(a.fuel_per_lap, a.current_lap)
            onTires == ExactLaps(a.tire_deg_rate, a.current_lap)
        IN  /\ RatLess(onFuel, onTires) => ret.val.critical_factor = "fuel"
            /\ RatLess(onTires, onFuel) => ret.val.critical_factor = "tires"
            /\ RatEq(onFuel, onTires) => ret.val.critical_factor = "fuel"

\* C2: optimal_pit_lap = current_lap + max(1, floor(laps_remaining - 2.5)),
\* also where laps_remaining - 2.5 is negative or fractional (the code
\* truncates toward zero instead of flooring); so optimal_pit_lap is at least
\* current_lap + 1.
C2_OptimalPitLap ==
    IsPit =>
        LET lr == ret.val.laps_remaining
        IN  /\ ret.val.optimal_pit_lap
                 = ret.args.current_lap
                     + Max(1, Floor(2 * lr[1] - 5 * lr[2], 2 * lr[2]))
            /\ ret.val.optimal_pit_lap >= ret.args.current_lap + 1

\* C2 witness: laps_remaining - 2.5 is negative and fractional, where floor
\* and truncation differ
C2_Witness ==
    /\ IsPit
    /\ 2 * ret.val.laps_remaining[1] - 5 * ret.val.laps_remaining[2] < 0
    /\ (2 * ret.val.laps_remaining[1] - 5 * ret.val.laps_remaining[2])
         % (2 * ret.val.laps_remaining[2]) # 0
    /\ ret.val.optimal_pit_lap = ret.args.current_lap + 1

\* C3: urgency is critical exactly when the unrounded laps_remaining < 3, high
\* exactly when 3 <= laps_remaining < 6, medium exactly when it is >= 6.
C3_Urgency ==
    IsPit =>
        LET n == ret.val.laps_remaining[1]
            d == ret.val.laps_remaining[2]
            u == ret.val.urgency
        IN  /\ u \in {"critical", "high", "medium"}
            /\ u = "critical" <=> n < 3 * d
            /\ u = "high" <=> (3 * d <= n /\ n < 6 * d)
            /\ u = "medium" <=> n >= 6 * d

\* C3 witness: laps_remaining is exactly 3, which is high
C3_Witness ==
    /\ IsPit
    /\ ret.val.laps_remaining[1] = 3 * ret.val.laps_remaining[2]
    /\ ret.val.urgency = "high"

IsExample(current_lap) ==
    /\ IsPit
    /\ ret.args.current_lap = current_lap
    /\ ret.args.fuel_per_lap = default_fuel_per_lap
    /\ ret.args.tire_deg_rate = default_tire_deg_rate

\* C4: the two worked examples with the default rates.  At lap 15: fuel 62.5,
\* tires 52.0, critical factor tires, laps_remaining 16.25 (returned rounded,
\* 16.2), optimal_pit_lap 28, urgency medium.  At lap 36: fuel 10.0, tires
\* -15.2, critical factor tires, laps_remaining -4.75 (returned rounded,
\* -4.8), urgency critical, optimal_pit_lap 37.
C4_WorkedExamples ==
    /\ IsExample(15) =>
        /\ ret.val.fuel_remaining_pct = 625
        /\ ret.val.tire_condition_pct = 520
        /\ ret.val.critical_factor = "tires"
        /\ RatEq(ret.val.laps_remaining, <<1625, 100>>)
        /\ ret.val.laps_until_critical = 162
        /\ ret.val.optimal_pit_lap = 28
        /\ ret.val.urgency = "medium"
    /\ IsExample(36) =>
        /\ ret.val.fuel_remaining_pct = 100
        /\ ret.val.tire_condition_pct = -152
        /\ ret.val.critical_factor = "tires"
        /\ RatEq(ret.val.laps_remaining, <<-475, 100>>)
        /\ ret.val.laps_until_critical = -48
        /\ ret.val.urgency = "critical"
        /\ ret.val.optimal_pit_lap = 37

\* C4 witness: the second example has been computed
C4_Witness == IsExample(36) /\ ret.val.tire_condition_pct < 0

\* C5 (as amended): pit_window is (optimal_pit_lap - 2, optimal_pit_lap + 2)
\* and optimal_pit_lap is at least current_lap + 1, so the low end of the window
\* is at least current_lap - 1 (it can lie before the current lap).
C5_PitWindow ==
    IsPit =>
        /\ ret.val.pit_window
             = <<ret.val.optimal_pit_lap - 2, ret.val.optimal_pit_lap + 2>>
        /\ ret.val.optimal_pit_lap >= ret.args.current_lap + 1
        /\ ret.val.pit_window[1] >= ret.args.current_lap - 1

\* C5 witness: a window whose low end is the lap before the current one
C5_Witness ==
    /\ IsPit
    /\ ret.val.pit_window[1] = ret.args.current_lap - 1

\* C5 as stated: the low end of pit_window is at least current_lap + 1.
C5_Original ==
    IsPit => ret.val.pit_window[1] >= ret.args.current_lap + 1

(***************************************************************************)
(* Claims about load_data, _calculate_lap_times and analyze_lap_times      *)
(* (checked under SpecLoad)                                                *)
(***************************************************************************)
IsLoad == ret.op = "load_data"

\* both event files were found and parsed, with the columns the derivation uses
EventTablesLoaded ==
    /\ IsDataFrame(fs.lap_start) /\ HasColumn(fs.lap_start, "timestamp")
    /\ IsDataFrame(fs.lap_end) /\ HasColumn(fs.lap_end, "timestamp")

\* the (end row, start row) index pairs of car and lap whose duration is t
\* tenths of a second
EventPairs(car, lap, t) ==
    {p \in (1..Len(fs.lap_end.rows)) \X (1..Len(fs.lap_start.rows)) :
        LET e == fs.lap_end.rows[p[1]]
            b == fs.lap_start.rows[p[2]]
        IN  /\ e.vehicle_id = car /\ e.lap = lap
            /\ b.vehicle_id = car /\ b.lap = lap
            /\ 10 * (e.timestamp - b.timestamp) = t}

\* the rows of the derived table of car and lap with lap time t
DerivedRows(car, lap, t) ==
    {i \in 1..Len(lap_times.rows) :
        /\ lap_times.rows[i].vehicle_id = car
        /\ lap_times.rows[i].lap = lap
        /\ lap_times.rows[i].lap_time = t}

EventCars == {k[1] : k \in EventKeys}

EventLaps == {k[2] : k \in EventKeys}

Durations == {10 * (e - b) : e \in EndStamps, b \in StartStamps}

\* C6: after a load of a lap-start and a lap-end table, the derived table holds
\* one row for each start/end pair with the same (vehicle_id, lap) in both
\* tables whose duration t is strictly between 30 and 300 s, and no other row:
\* an event without counterpart gives no row, durations of exactly 30 or 300 s
\* are dropped; the load does not raise (not even when a column is missing).
C6_LapTimeDerivation ==
    (IsLoad /\ IsDataFrame(fs.lap_start) /\ IsDataFrame(fs.lap_end)) =>
        /\ ret.val = TRUE
        /\ EventTablesLoaded =>
            /\ IsDataFrame(lap_times)
            /\ \A i \in 1..Len(lap_times.rows) :
                  /\ lap_times.rows[i].lap_time > 300
                  /\ lap_times.rows[i].lap_time < 3000
                  /\ lap_times.rows[i].vehicle_id \in EventCars
                  /\ lap_times.rows[i].lap \in EventLaps
                  /\ lap_times.rows[i].lap_time \in Durations
            /\ \A car \in EventCars, lap \in EventLaps, t \in Durations :
                  Cardinality(DerivedRows(car, lap, t))
                    = IF 300 < t /\ t < 3000
                      THEN Cardinality(EventPairs(car, lap, t)) ELSE 0

\* C6 witness: a derived table that keeps one pair and drops another whose
\* duration is exactly 30 s
C6_Witness ==
    /\ IsLoad /\ EventTablesLoaded
    /\ Len(lap_times.rows) = 1
    /\ \E car \in EventCars, lap \in EventLaps : EventPairs(car, lap, 300) # {}

\* C7: after a successful load, if both the lap-start and the lap-end table were
\* found, lap_times is what the derivation returned for them, also when a
\* direct lap-time table was found; otherwise lap_times is the direct table if
\* one was found and None if not.
C7_ConflictPolicy ==
    (IsLoad /\ ret.val = TRUE) =>
        IF IsDataFrame(fs.lap_start) /\ IsDataFrame(fs.lap_end)
        THEN lap_times = calculate_lap_times(fs.lap_start, fs.lap_end)
        ELSE lap_times = fs.lap_time

\* C7 witness: all three tables were found and lap_times is the derived one
C7_Witness ==
    /\ IsLoad /\ EventTablesLoaded
    /\ fs.lap_time = DirectLapTimes
    /\ IsDataFrame(lap_times) /\ Len(lap_times.rows) >= 1
    /\ lap_times.rows[1].vehicle_id # 3

IsAnalysis == ret.op = "analyze_lap_times"

\* the rows of lap_times of one car
RowsOfCar(car) ==
    {i \in 1..Len(lap_times.rows) :
        lap_times.rows[i][get_car_id_column(lap_times)] = car}

\* C8 as stated: for a car with exactly one lap record analyze_lap_times
\* returns an analysis whose consistency score is exactly 100 (not NaN).
C8_Original ==
    (/\ IsAnalysis /\ IsDataFrame(lap_times) /\ Truthy(ret.args.car_id)
     /\ Cardinality(RowsOfCar(ret.args.car_id)) = 1
     /\ get_lap_time_column(lap_times) # NoColumn) =>
        /\ ret.val # NoneV
        /\ ret.val.consistency_score = [kind |-> "100-100*sqrt", of |-> <<0, 1>>]

(***************************************************************************)
(* Claims about generate_race_insights (checked under SpecInsights)        *)
(***************************************************************************)
IsInsights == ret.op = "generate_race_insights"

\* a call answered from a loaded, non-empty lap-time table
InsightsFromTable == IsInsights /\ ~Unavailable(lap_times)

TableCars == {lap_times.rows[i].vehicle_id : i \in 1..Len(lap_times.rows)}

\* the cars met in the table before the first row of car
CarsBefore(car) ==
    {lap_times.rows[j].vehicle_id :
        j \in {j \in 1..Len(lap_times.rows) :
                 \A i \in 1..j : lap_times.rows[i].vehicle_id # car}}

\* car is one of the first n distinct car ids in table-encounter order
AmongFirst(car, n) == car \in TableCars /\ Cardinality(CarsBefore(car)) < n

\* the positions in the returned list of the insights of a type about a car
InsightsOf(type, car) ==
    {i \in 1..Len(ret.val) : ret.val[i].type = type /\ ret.val[i].car_id = car}

\* urgency of the recommendation with the default rates
DefaultUrgency(current_lap) ==
    LET laps == ExactLaps(Max(default_fuel_per_lap, default_tire_deg_rate),
                          current_lap)
    IN  IF laps[1] < 3 * laps[2] THEN "critical"
        ELSE IF laps[1] < 6 * laps[2] THEN "high" ELSE "medium"

\* C9: pit_strategy insights are produced only for the first 5 distinct car ids
\* in table-encounter order; each of them gets exactly one, of priority high if
\* the urgency at current_lap is critical and medium if it is high, and none if
\* the urgency is medium; no other car gets one.
C9_PitPass ==
    InsightsFromTable =>
        LET urgency == DefaultUrgency(ret.args.current_lap)
        IN  /\ \A i \in 1..Len(ret.val) :
                  ret.val[i].type = "pit_strategy" => ret.val[i].car_id \in TableCars
            /\ \A car \in TableCars :
                  LET mine == InsightsOf("pit_strategy", car)
                  IN  IF AmongFirst(car, 5) /\ urgency # "medium"
                      THEN /\ Cardinality(mine) = 1
                           /\ \A i \in mine :
                                 ret.val[i].priority
                                   = IF urgency = "critical" THEN "high"
                                     ELSE "medium"
                      ELSE mine = {}

\* C9 witness: a table of more than five cars whose first five get a pit
\* insight each
C9_Witness ==
    /\ InsightsFromTable
    /\ Cardinality(TableCars) > 5
    /\ Cardinality({i \in 1..Len(ret.val) : ret.val[i].type = "pit_strategy"}) = 5
    /\ lap_times.rows[1].vehicle_id # 1

\* the rows of a car whose lap number lies in [current_lap - 5, current_lap]
WindowRows(car) ==
    {i \in 1..Len(lap_times.rows) :
        /\ lap_times.rows[i].vehicle_id = car
        /\ lap_times.rows[i].lap >= ret.args.current_lap - 5
        /\ lap_times.rows[i].lap <= ret.args.current_lap}

MinOf(S) == CHOOSE x \in S : \A y \in S : x <= y

MaxOf(S) == CHOOSE x \in S : \A y \in S : x >= y

\* last lap time minus first lap time of the window rows of a car, in tenths
WindowChange(car) ==
    lap_times.rows[MaxOf(WindowRows(car))].lap_time
      - lap_times.rows[MinOf(WindowRows(car))].lap_time

\* C10: performance insights are produced only for the first 3 distinct car
\* ids; with at least 3 laps in [current_lap - 5, current_lap] a car gets one
\* medium "degrading" insight exactly when last > first + 0.5 s, one low
\* "improving" insight exactly when last < first - 0.3 s, nothing otherwise
\* (also for differences of exactly 0.5 or 0.3 s); with fewer laps nothing.
C10_TrendPass ==
    InsightsFromTable =>
        /\ \A i \in 1..Len(ret.val) :
              ret.val[i].type = "performance" => ret.val[i].car_id \in TableCars
        /\ \A car \in TableCars :
              LET mine == InsightsOf("performance", car)
              IN  IF AmongFirst(car, 3) /\ Cardinality(WindowRows(car)) >= 3
                  THEN IF WindowChange(car) > 5
                       THEN /\ Cardinality(mine) = 1
                            /\ \A i \in mine :
                                  /\ ret.val[i].priority = "medium"
                                  /\ ret.val[i].message.text = "Lap times degrading"
                       ELSE IF WindowChange(car) < -3
                       THEN /\ Cardinality(mine) = 1
                            /\ \A i \in mine :
                                  /\ ret.val[i].priority = "low"
                                  /\ ret.val[i].message.text = "Improving pace"
                       ELSE mine = {}
                  ELSE mine = {}

\* C10 witness: among the first three cars one is slower by exactly 0.5 s and
\* one faster by exactly 0.3 s over three laps of the window, a fourth car
\* is in the table, and there is no performance insight
C10_Witness ==
    /\ InsightsFromTable
    /\ Cardinality(TableCars) > 3
    /\ \E car \in TableCars :
          AmongFirst(car, 3) /\ Cardinality(WindowRows(car)) >= 3
            /\ WindowChange(car) = 5
    /\ \E car \in TableCars :
          AmongFirst(car, 3) /\ Cardinality(WindowRows(car)) >= 3
            /\ WindowChange(car) = -3
    /\ \A i \in 1..Len(ret.val) : ret.val[i].type # "performance"

\* the window row of a car with the lowest / the highest lap number
EarliestRow(car) ==
    CHOOSE i \in WindowRows(car) :
        \A j \in WindowRows(car) : lap_times.rows[i].lap <= lap_times.rows[j].lap

LatestRow(car) ==
    CHOOSE i \in WindowRows(car) :
        \A j \in WindowRows(car) : lap_times.rows[i].lap >= lap_times.rows[j].lap

\* lap time of the chronologically last lap of the window minus that of the
\* chronologically first, in tenths of a second
ChronologicalChange(car) ==
    lap_times.rows[LatestRow(car)].lap_time
      - lap_times.rows[EarliestRow(car)].lap_time

\* C11 as stated: for every row order of the table, the trend insight of a car
\* (one of the first 3, with at least 3 laps in the window) compares the lap
\* time of the highest lap number of the window with that of the lowest:
\* "degrading" exactly when it is more than 0.5 s above, "improving" exactly
\* when it is more than 0.3 s below, nothing otherwise.
C11_Original ==
    InsightsFromTable =>
        \A car \in TableCars :
            (AmongFirst(car, 3) /\ Cardinality(WindowRows(car)) >= 3) =>
                LET mine == InsightsOf("performance", car)
                    text == IF ChronologicalChange(car) > 5
                            THEN "Lap times degrading"
                            ELSE IF ChronologicalChange(car) < -3
                            THEN "Improving pace" ELSE ""
                IN  IF text = "" THEN mine = {}
                    ELSE /\ Cardinality(mine) = 1
                         /\ \A i \in mine : ret.val[i].message.text = text

\* the number of a car in table-encounter order (0 for the first car met)
EncounterRank(car) == Cardinality(CarsBefore(car))

\* the car qualifies for an insight of the pit pass / of the trend pass
QualifiesForPit(car) ==
    AmongFirst(car, 5) /\ DefaultUrgency(ret.args.current_lap) # "medium"

QualifiesForTrend(car) ==
    /\ AmongFirst(car, 3) /\ Cardinality(WindowRows(car)) >= 3
    /\ (WindowChange(car) > 5 \/ WindowChange(car) < -3)

\* C12: in every returned list all pit_strategy insights precede all
\* performance insights, and each of the two groups is in car table-encounter
\* order (whatever the priorities are); a car that qualifies in both passes has
\* two insights in the list, one of each type.
C12_GenerationOrder ==
    InsightsFromTable =>
        /\ \A i, j \in 1..Len(ret.val) :
              i < j =>
                 /\ ~(ret.val[i].type = "performance"
                        /\ ret.val[j].type = "pit_strategy")
                 /\ ret.val[i].type = ret.val[j].type =>
                       EncounterRank(ret.val[i].car_id)
                         < EncounterRank(ret.val[j].car_id)
        /\ \A car \in TableCars :
              /\ Cardinality(InsightsOf("pit_strategy", car))
                   = IF QualifiesForPit(car) THEN 1 ELSE 0
              /\ Cardinality(InsightsOf("performance", car))
                   = IF QualifiesForTrend(car) THEN 1 ELSE 0

\* C12 witness: a list in which a low-priority insight precedes a
\* medium-priority one and follows a high-priority one, whose cars are not in
\* the order of their ids, and a car with both a pit and a performance insight
C12_Witness ==
    /\ InsightsFromTable
    /\ \E i, j, k \in 1..Len(ret.val) :
          /\ i < j /\ j < k
          /\ ret.val[i].priority = "high"
          /\ ret.val[j].priority = "low"
          /\ ret.val[k].priority = "medium"
          /\ ret.val[j].car_id > ret.val[k].car_id
    /\ \E car \in TableCars :
          /\ InsightsOf("pit_strategy", car) # {}
          /\ InsightsOf("performance", car) # {}

(***************************************************************************)
(* Claims about export_live_data (checked under SpecQuery)                 *)
(***************************************************************************)
\* a call of export_live_data that returned a snapshot
IsExport ==
    /\ ret.op = "export_live_data"
    /\ ret.val # NoneV /\ ret.val # Raised("TypeError")

\* C13: the cars of an exported snapshot are non-decreasing in best_lap and the
\* position of each car is its 1-based index in the sequence, so the positions
\* are 1..N without gaps or duplicates, also when best laps are equal.
C13_SnapshotOrder ==
    IsExport =>
        /\ \A i, j \in 1..Len(ret.val.cars) :
              i < j => ret.val.cars[i].best_lap <= ret.val.cars[j].best_lap
        /\ \A i \in 1..Len(ret.val.cars) : ret.val.cars[i].position = i
        /\ {ret.val.cars[i].position : i \in 1..Len(ret.val.cars)}
             = 1..Len(ret.val.cars)

\* C13 witness: a snapshot of two cars with equal best laps, at positions 1, 2
C13_Witness ==
    /\ IsExport
    /\ Len(ret.val.cars) = 2
    /\ ret.val.cars[1].best_lap = ret.val.cars[2].best_lap
    /\ ret.val.cars[1].car_id # ret.val.cars[2].car_id
    /\ ret.val.cars[2].position = 2

\* the rows of lap_times of a car, and those of the lap asked about
RowsAtCurrentLap(car) ==
    {i \in RowsOfCar(car) :
        lap_times.rows[i][get_lap_column(lap_times)] = ret.args.current_lap}

\* the distinct values of the car-id column of lap_times
CarsOfTable ==
    {lap_times.rows[i][get_car_id_column(lap_times)] :
        i \in 1..Len(lap_times.rows)}

\* the entries of a car in the exported cars
EntriesOf(car) ==
    {i \in 1..Len(ret.val.cars) : ret.val.cars[i].car_id = PyStr(car)}

\* C14: when a lap-number column resolves, a car is in the snapshot (once)
\* exactly when it has a row of lap current_lap, and its last_lap is the lap
\* time of its (first) row of that lap; when none resolves, every distinct car
\* is in the snapshot and its last_lap is the lap time of its last row; every
\* entry is a car of the table, and their number is not limited to 5.
C14_SnapshotInclusion ==
    IsExport =>
        LET lap_time_col == get_lap_time_column(lap_times)
        IN  /\ \A i \in 1..Len(ret.val.cars) :
                  \E car \in CarsOfTable : ret.val.cars[i].car_id = PyStr(car)
            /\ \A car \in CarsOfTable :
                  IF get_lap_column(lap_times) # NoColumn
                  THEN IF RowsAtCurrentLap(car) # {}
                       THEN /\ Cardinality(EntriesOf(car)) = 1
                            /\ \A i \in EntriesOf(car) :
                                  ret.val.cars[i].last_lap
                                    = lap_times.rows[MinOf(RowsAtCurrentLap(car))]
                                        [lap_time_col]
                       ELSE EntriesOf(car) = {}
                  ELSE /\ Cardinality(EntriesOf(car)) = 1
                       /\ \A i \in EntriesOf(car) :
                             ret.val.cars[i].last_lap
                               = lap_times.rows[MaxOf(RowsOfCar(car))][lap_time_col]

\* C14 witness: a lap-number column resolves, one car of the table has no row
\* of the lap asked about and is left out, another has two such rows with
\* different lap times
C14_Witness ==
    /\ IsExport
    /\ get_lap_column(lap_times) # NoColumn
    /\ \E car \in CarsOfTable : RowsAtCurrentLap(car) = {} /\ EntriesOf(car) = {}
    /\ \E car \in CarsOfTable :
          /\ Cardinality(RowsAtCurrentLap(car)) = 2
          /\ \E i, j \in RowsAtCurrentLap(car) :
                lap_times.rows[i][get_lap_time_column(lap_times)]
                  # lap_times.rows[j][get_lap_time_column(lap_times)]

(***************************************************************************)
(* Claims about the batch driver (checked under SpecBatch, SpecBatchFair)  *)
(***************************************************************************)
\* the track/race pairs in the order of the loops: pair p is race 1 or 2 of
\* track (p + 1) \div 2
NumPairs == 2 * Len(Tracks)

PairTrack(p) == (p + 1) \div 2

PairRace(p) == IF p % 2 = 1 THEN 1 ELSE 2

\* the race directory of a pair, Absent when there is none
PairFiles(p) ==
    IF tree[PairTrack(p)].kind = "absent" THEN Absent
    ELSE tree[PairTrack(p)].races[PairRace(p)]

\* what the processing of a pair ends with: race data, None or an exception
Outcome(p) ==
    race_body(UpperNames[PairTrack(p)], PairRace(p), PairFiles(p)).val

Fails(p) == PairFiles(p) # Absent /\ Outcome(p) \in {NoneV, Raised("ValueError")}

Succeeds(p) == PairFiles(p) # Absent /\ ~Fails(p)

\* the results of the pairs 1..n that succeeded, in order
RECURSIVE Succeeded(_)
Succeeded(n) ==
    IF n = 0 THEN <<>>
    ELSE Succeeded(n - 1) \o (IF Succeeds(n) THEN <<Outcome(n)>> ELSE <<>>)

\* process_all_tracks has returned
Completed == at.pc = "done"

\* C15 as stated: no exception or load failure of a pair leaves
\* process_single_race; the batch is never left by an exception and eventually
\* completes, and the aggregate of the completed batch, in memory and as
\* saved, holds exactly the results of the pairs that succeeded, in the order
\* of the loops, those after a failed pair included.
C15_FailureContained ==
    /\ [](at.pc # "crashed")
    /\ [](Completed =>
            /\ batch.all_results.tracks = Succeeded(NumPairs)
            /\ batch.saved.tracks = Succeeded(NumPairs)
            /\ batch.all_results.summary.total_races = Len(Succeeded(NumPairs)))
    /\ <>Completed

\* a car of the race has a best lap under 10 s
HasFastCar(race_data) ==
    \E i \in 1..Len(race_data.cars) : race_data.cars[i].best_lap_time < Tenths(10)

\* the printed lines of a level about a race
LinesAbout(level, race_data) ==
    {i \in 1..Len(batch.log) :
        /\ batch.log[i].level = level
        /\ batch.log[i].track = race_data.track
        /\ batch.log[i].race = race_data.race}

\* the loops over the tracks and their races have ended
AfterLoops ==
    \/ at.pc \in {"summary", "verify", "done"}
    \/ at.pc = "crashed" /\ at.in = "json.dump"

HasRaised == \E exc \in {"KeyError"} : ret.val = Raised(exc)

\* the loaded lap-time table has no column that is a lap-time candidate
NoLapTimeColumn ==
    IsDataFrame(lap_times) /\ get_lap_time_column(lap_times) = NoColumn

\* the loaded telemetry table lacks the car-id or the distance column that
\* analyze_telemetry_section looks up
NoSectionColumns ==
    /\ telemetry # NoneV
    /\ ~HasColumn(telemetry, "CarId") \/ ~HasColumn(telemetry, "Distance")

\* C17 as stated: no query raises on a schema mismatch.  analyze_lap_times,
\* compare_drivers and export_live_data return None when the lap-time column
\* cannot be resolved; generate_race_insights returns a list, without
\* performance insights when the lap or the lap-time column cannot be
\* resolved; analyze_telemetry_section returns None on a telemetry table that
\* lacks the car-id or the distance column.
C17_Original ==
    /\ ret.op \in {"analyze_lap_times", "compare_drivers", "export_live_data"} =>
          /\ ~HasRaised
          /\ NoLapTimeColumn => ret.val = NoneV
    /\ ret.op = "generate_race_insights" =>
          /\ DOMAIN ret.val = 1..Len(ret.val)
          /\ (NoLapTimeColumn \/ get_lap_column(lap_times) = NoColumn) =>
                \A i \in 1..Len(ret.val) : ret.val[i].type # "performance"
    /\ ret.op = "analyze_telemetry_section" =>
          /\ ~HasRaised
          /\ NoSectionColumns => ret.val = NoneV

\* a car id that is falsy in Python: the empty string or the integer 0
Falsy(car) == car \in {EmptyStr, Int64(0)}

\* the rows of lap_times that a call for car is about: the car's own, and all
\* rows in a call without a car or (see C26) with a falsy car id, for which
\* no filter is applied
AnalysedRows(car) ==
    IF car = NoCar \/ Falsy(car) THEN 1..Len(lap_times.rows) ELSE RowsOfCar(car)

\* the lap time of row i of lap_times
LapTimeOf(i) == lap_times.rows[i][get_lap_time_column(lap_times)]

RECURSIVE LapTimeTotal(_)
LapTimeTotal(S) ==
    IF S = {} THEN 0
    ELSE LET i == CHOOSE i \in S : TRUE
         IN  LapTimeOf(i) + LapTimeTotal(S \ {i})

\* C18: analyze_lap_times returns None when the lap-time table is absent or
\* empty, when no row is left after the filter by car_id (unknown car), or
\* when no lap-time column candidate resolves; otherwise it returns the
\* number, the minimum, the maximum and the mean of the lap times of exactly
\* the car's rows (of all rows in a call without a car or with a falsy car
\* id, which applies no filter).
C18_LapAnalysis ==
    IsAnalysis =>
        LET car  == ret.args.car_id
            mine == AnalysedRows(car)
        IN  IF \/ Unavailable(lap_times)
               \/ mine = {}
               \/ get_lap_time_column(lap_times) = NoColumn
            THEN ret.val = NoneV
            ELSE /\ ret.val # NoneV
                 /\ ret.val.car_id = car
                 /\ ret.val.total_laps = Cardinality(mine)
                 /\ \E i \in mine : ret.val.best_lap = LapTimeOf(i)
                 /\ \A i \in mine : ret.val.best_lap <= LapTimeOf(i)
                 /\ \E i \in mine : ret.val.worst_lap = LapTimeOf(i)
                 /\ \A i \in mine : ret.val.worst_lap >= LapTimeOf(i)
                 /\ ret.val.avg_lap[1] * Cardinality(mine)
                      = ret.val.avg_lap[2] * LapTimeTotal(mine)

\* C18 witness: the analysis of a car with two laps of different times in a
\* table that also holds another car, whose column names are not the first
\* candidates
C18_Witness ==
    /\ IsAnalysis /\ ret.val # NoneV /\ ret.args.car_id # NoCar
    /\ ret.val.total_laps = 2 /\ Len(lap_times.rows) > 2
    /\ ret.val.best_lap < ret.val.worst_lap
    /\ get_lap_time_column(lap_times) # "lap_time"
    /\ get_car_id_column(lap_times) # "vehicle_id"

\* the candidate names of the car-id and of the lap-time column, in order
CarIdNames == <<"CarId", "vehicle_id", "Car", "Vehicle", "vehicle_number">>

LapTimeNames == <<"lap_time", "LapTime", "laptime", "time", "Lap Time", "elapsed">>

\* the positions in the list of the names that are columns of lap_times
PresentNames(names) ==
    {k \in 1..Len(names) : HasColumn(lap_times, names[k])}

\* the present name that is earliest in the list, else the fallback
EarliestName(names, fallback) ==
    IF PresentNames(names) = {} THEN fallback
    ELSE names[CHOOSE k \in PresentNames(names) :
                   \A j \in PresentNames(names) : k <= j]

\* the position of a column in the table
ColumnIndex(col) == CHOOSE i \in 1..Len(lap_times.cols) : lap_times.cols[i] = col

\* C19: on a loaded lap-time table, _get_car_id_column returns the earliest
\* present name of [CarId, vehicle_id, Car, Vehicle, vehicle_number] and the
\* table's first column when none is present; _get_lap_time_column returns the
\* earliest present name of [lap_time, LapTime, laptime, time, Lap Time,
\* elapsed] and None when none is present; the position of the columns in the
\* table plays no part.
C19_SchemaNormalizer ==
    /\ (ret.op = "_get_car_id_column" /\ IsDataFrame(lap_times)) =>
          ret.val = EarliestName(CarIdNames, lap_times.cols[1])
    /\ (ret.op = "_get_lap_time_column" /\ IsDataFrame(lap_times)) =>
          ret.val = EarliestName(LapTimeNames, NoColumn)

\* C19 witness: the car-id lookup on a table in which a later candidate
\* stands before the earlier one that is returned
C19_Witness ==
    /\ ret.op = "_get_car_id_column" /\ IsDataFrame(lap_times)
    /\ Cardinality(PresentNames(CarIdNames)) = 2
    /\ \E k \in PresentNames(CarIdNames) :
          /\ CarIdNames[k] # ret.val
          /\ ColumnIndex(CarIdNames[k]) < ColumnIndex(ret.val)

\* the engine fields as load_data leaves them on the files of data_dir
AsLoaded == load_data(FreshEngine, fs)

PureQueries ==
    {"analyze_lap_times", "compare_drivers", "predict_pit_window",
     "generate_race_insights"}

\* the result of a query with its arguments on a lap-time table
ResultOn(df, op, args) ==
    CASE op = "analyze_lap_times" -> analyze_lap_times(df, args.car_id)
      [] op = "compare_drivers" ->
             compare_drivers(df, args.car_id_1, args.car_id_2)
      [] op = "predict_pit_window" ->
             predict_pit_window(args.car_id, args.current_lap,
                                args.fuel_per_lap, args.tire_deg_rate)
      [] op = "generate_race_insights" ->
             generate_race_insights(df, args.current_lap)

\* C20: after a load, whatever queries have been called since, every table is
\* still as load_data left it, and the result of analyze_lap_times,
\* compare_drivers, predict_pit_window or generate_race_insights is the one
\* its arguments have on the tables as loaded; so the same call gives the
\* same result every time, whichever queries ran in between.
C20_QueriesPure ==
    pc = "loaded" =>
        /\ tables = <<AsLoaded.lap_times, AsLoaded.lap_starts,
                      AsLoaded.lap_ends, AsLoaded.telemetry>>
        /\ ret.op \in PureQueries =>
              ret.val = ResultOn(AsLoaded.lap_times, ret.op, ret.args)

\* C20 witness: after a load, a comparison of two cars that both have laps in
\* a table of several rows
C20_Witness ==
    /\ pc = "loaded"
    /\ ret.op = "compare_drivers" /\ ret.val # NoneV
    /\ Len(lap_times.rows) >= 3

(***************************************************************************)
(* Further claims about the insights, the load, the snapshot and the batch *)
(***************************************************************************)
\* the lap-time table is absent, or it has no rows
NoLapRecords == lap_times = NoneV \/ lap_times.rows = <<>>

\* C21: whenever the lap-time table is absent or empty, generate_race_insights
\* returns the empty list, for every current_lap, also for one at which the
\* pit pass would report every car.
C21_EmptyInsights ==
    (IsInsights /\ NoLapRecords) => ret.val = <<>>

\* C21 witness: the insights of a loaded lap-time table without rows, asked
\* at a lap of critical urgency
C21_Witness ==
    /\ IsInsights /\ pc = "loaded"
    /\ IsDataFrame(lap_times) /\ lap_times.rows = <<>>
    /\ DefaultUrgency(ret.args.current_lap) = "critical"
    /\ ret.val = <<>>

\* both event files were found and parsed, and one of them lacks a column that
\* _calculate_lap_times reads (the timestamp or a key of the merge)
DerivationFails ==
    /\ IsDataFrame(fs.lap_start) /\ IsDataFrame(fs.lap_end)
    /\ \E t \in {fs.lap_start, fs.lap_end} :
          \E col \in {"vehicle_id", "lap", "timestamp"} : ~HasColumn(t, col)

\* C22: when both event tables are found and the derivation fails, the load
\* still reports success and leaves lap_times None, also when a direct
\* lap-time table was found in the same load; analyze_lap_times then returns
\* None for every car.
C22_DerivationFailure ==
    DerivationFails =>
        /\ IsLoad => (ret.val = TRUE /\ pc = "loaded" /\ lap_times = NoneV)
        /\ pc = "loaded" => lap_times = NoneV
        /\ (IsAnalysis /\ pc = "loaded") => ret.val = NoneV

\* C22 witness: a load that found a direct lap-time table of car 3 and event
\* files of which one has no timestamp column, and the analysis of car 3 after
\* it
C22_Witness ==
    /\ DerivationFails /\ fs.lap_time = DirectLapTimes
    /\ pc = "loaded" /\ lap_times = NoneV
    /\ IsAnalysis /\ ret.args.car_id = 3 /\ ret.val = NoneV

\* the positions of the pit_strategy insights in the returned list
PitInsights == {i \in 1..Len(ret.val) : ret.val[i].type = "pit_strategy"}

\* min(5, number of distinct cars of the table)
PitQuota == IF Cardinality(TableCars) < 5 THEN Cardinality(TableCars) ELSE 5

\* C23: the pit_strategy insights of one call all have the same priority and
\* their number is 0 or min(5, number of distinct cars); with the default
\* rates the critical factor is tires, there is no pit insight up to lap 25,
\* there are min(5, cars) of priority medium on the laps 26..28 and min(5,
\* cars) of priority high, naming tires, from lap 29.
C23_PitAllOrNothing ==
    InsightsFromTable =>
        LET current_lap == ret.args.current_lap
        IN  /\ \A i, j \in PitInsights : ret.val[i].priority = ret.val[j].priority
            /\ Cardinality(PitInsights) \in {0, PitQuota}
            /\ predict_pit_window(1, current_lap, default_fuel_per_lap,
                                  default_tire_deg_rate).critical_factor = "tires"
            /\ current_lap <= 25 => PitInsights = {}
            /\ current_lap \in 26..28 =>
                  /\ Cardinality(PitInsights) = PitQuota
                  /\ \A i \in PitInsights : ret.val[i].priority = "medium"
            /\ current_lap >= 29 =>
                  /\ Cardinality(PitInsights) = PitQuota
                  /\ \A i \in PitInsights :
                        /\ ret.val[i].priority = "high"
                        /\ ret.val[i].message.a = "tires"

\* C23 witness: at lap 28, the last lap of high urgency, a table of more than
\* five cars gets five pit insights of priority medium
C23_Witness ==
    /\ InsightsFromTable /\ ret.args.current_lap = 28
    /\ Cardinality(TableCars) > 5
    /\ Cardinality(PitInsights) = 5
    /\ \A i \in PitInsights : ret.val[i].priority = "medium"

\* car is one of the first five distinct car ids of lap_times in the order of
\* their first rows
AmongFirstFive(car) ==
    Cardinality({c \in CarsOfTable :
                    MinOf(RowsOfCar(c)) < MinOf(RowsOfCar(car))}) < 5

\* the positions of the pit_strategy insights of a snapshot that name car
SnapshotPitInsights(car) ==
    {i \in 1..Len(ret.val.insights) :
        /\ ret.val.insights[i].type = "pit_strategy"
        /\ ret.val.insights[i].car_id = car}

\* C24: in a snapshot taken with a lap-number column, a car among the first
\* five distinct ids that has no row at current_lap is not in the cars list,
\* and when the urgency at current_lap is critical or high the insights of
\* the snapshot hold a pit_strategy insight that names it.
C24_SnapshotInsights ==
    (IsExport /\ get_lap_column(lap_times) # NoColumn) =>
        \A car \in CarsOfTable :
            (AmongFirstFive(car) /\ RowsAtCurrentLap(car) = {}) =>
                /\ EntriesOf(car) = {}
                /\ DefaultUrgency(ret.args.current_lap) # "medium" =>
                      SnapshotPitInsights(car) # {}

\* C24 witness: a snapshot that exports one car and whose insights name
\* another car, which has no row at current_lap: the cars named by the
\* insights are not a subset of the exported cars
C24_Witness ==
    /\ IsExport /\ Len(ret.val.cars) >= 1
    /\ get_lap_column(lap_times) # NoColumn
    /\ \E car \in CarsOfTable :
          /\ RowsAtCurrentLap(car) = {}
          /\ EntriesOf(car) = {}
          /\ SnapshotPitInsights(car) # {}

\* the summary counts have been set (lines 217-218 have run)
AfterSummary ==
    \/ at.pc \in {"verify", "done"}
    \/ at.pc = "crashed" /\ at.in = "json.dump"

\* C25: once the summary is set, for every pattern of successes and failures
\* of the races: total_races is the number of results in tracks, total_cars
\* the sum of their car counts, total_insights the sum of their insight
\* counts, total_tracks is 7 whether or not the track directories exist, and
\* successful_tracks is total_races integer-divided by 2; the completed batch
\* has saved this aggregate.
C25_SummaryConsistency ==
    AfterSummary =>
        LET results == batch.all_results.tracks
            summary == batch.all_results.summary
        IN  /\ summary.total_races = Len(results)
            /\ summary.total_cars
                 = Sum([i \in 1..Len(results) |-> Len(results[i].cars)])
            /\ summary.total_insights
                 = Sum([i \in 1..Len(results) |-> Len(results[i].insights)])
            /\ summary.total_tracks = 7
            /\ summary.successful_tracks = summary.total_races \div 2
            /\ Completed => batch.saved = batch.all_results

\* C25 witness: a completed batch with a track whose directory does not exist
\* and a track with one successful race: 11 races of 6 tracks, of which 5 are
\* counted as successful
C25_Witness ==
    /\ Completed
    /\ \E i \in 1..Len(Tracks) : tree[i].kind = "absent"
    /\ batch.all_results.summary.total_races = 11
    /\ batch.all_results.summary.total_tracks = 7
    /\ batch.all_results.summary.successful_tracks = 5
    /\ Cardinality({batch.all_results.tracks[i].track :
                       i \in 1..Len(batch.all_results.tracks)}) = 6
    /\ batch.all_results.summary.total_insights > 0

\* C26: a call of analyze_lap_times with a falsy car id (the empty string or
\* the integer 0) applies no filter: on a table with rows and a lap-time
\* column it returns the number, minimum, maximum and mean of the lap times
\* of all rows, labelled with that car id, also when the car has rows of its
\* own in the table.
C26_FalsyCarId ==
    (/\ IsAnalysis /\ Falsy(ret.args.car_id)
     /\ ~NoLapRecords /\ get_lap_time_column(lap_times) # NoColumn) =>
        LET all == 1..Len(lap_times.rows)
        IN  /\ ret.val # NoneV
            /\ ret.val.car_id = ret.args.car_id
            /\ ret.val.total_laps = Len(lap_times.rows)
            /\ \E i \in all : ret.val.best_lap = LapTimeOf(i)
            /\ \A i \in all : ret.val.best_lap <= LapTimeOf(i)
            /\ \E i \in all : ret.val.worst_lap = LapTimeOf(i)
            /\ \A i \in all : ret.val.worst_lap >= LapTimeOf(i)
            /\ ret.val.avg_lap[1] * Len(lap_times.rows)
                 = ret.val.avg_lap[2] * LapTimeTotal(all)

\* C26 witness: the analysis asked for car 0 of a table in which car 0 has two
\* of the three rows: it counts three laps, and its worst lap is a lap of the
\* other car
C26_Witness ==
    /\ IsAnalysis /\ ret.args.car_id = Int64(0) /\ ret.val # NoneV
    /\ Cardinality(RowsOfCar(Int64(0))) = 2
    /\ ret.val.total_laps = 3
    /\ \A i \in RowsOfCar(Int64(0)) : ret.val.worst_lap > LapTimeOf(i)

====
